---- MODULE Spec2Model ----
(***************************************************************************)
(* Model of the two classical pixel pipelines of Remove-Background:        *)
(*   - src/backends/gemini_watermark.py  (reverse alpha-blend watermark    *)
(*     removal) and                                                        *)
(*   - src/backends/greenscreen.py + src/postprocess/green_screen.py       *)
(*     (chroma key, mask refinement, alpha merge, despill),                *)
(* and of what drives them: src/core/processor.py (process_folder),        *)
(* src/core/interfaces.py (BaseBackend) and src/backends/registry.py.      *)
(*                                                                         *)
(* Numbers.  Python floats are modelled by exact rationals <<num, den>>    *)
(* (den > 0, lowest terms).  A float computation followed by round() is    *)
(* modelled by RoundChoices: the nearest integer of the exact value, and   *)
(* BOTH neighbours when the exact value lies exactly half way, because the *)
(* binary rounding error of k/255.0, 1.0 - alpha and the division decides  *)
(* on which side of the tie the float lands (e.g. watermarked = 161,       *)
(* alpha = 67/255, strength = 1 : exact 127.5, the code writes 127;        *)
(* watermarked = 105, alpha = 75/255 : exact 42.5, the code writes 43).    *)
(* The float32 arithmetic of the despill stages is exact for the strengths *)
(* used here and ends in a truncating uint8 cast, modelled by Floor.       *)
(*                                                                         *)
(* Images.  An image is [mode, width, height, px] where px maps pixel      *)
(* coordinates <<x, y>> to channel tuples.  The per-pixel loops of the     *)
(* code never read a neighbouring pixel, so px may hold any subset of the  *)
(* image's coordinates (the tracked pixels); the same holds for the alpha  *)
(* map, a function from the list index row*size+col to the alpha value.    *)
(***************************************************************************)
EXTENDS Integers, Sequences, FiniteSets, TLC

VARIABLES
    \* ---- direct calls of _remove_watermark(image, params)
    rm_image,        \* the image handed to _remove_watermark (mutated in place)
    rm_before,       \* the same image as it was before the call
    rm_params,       \* _WatermarkRemovalParams
    rm_pc,           \* "ready" before the call, "done" after it
    \* ---- GeminiWatermarkBackend instance and its environment
    wm_model,        \* self.model
    wm_requested,    \* the strength argument the constructor was given
    wm_strength,     \* self.strength (after BaseBackend's clamp)
    wm_model_loaded, \* self._model_loaded
    wm_alpha_maps,   \* self._alpha_maps, keyed by size
    wm_assets,       \* assets/bg_<size>.png: whether it exists, and its pixels
    wm_input,        \* the image stored at input_path
    wm_config,       \* wm_config chosen by the last process call, or "none"
    wm_output,       \* the image written to output_path, or "none"
    wm_return,       \* outcome of the last process call
    wm_last_loads,   \* sizes whose reference image the last call loaded
    wm_last_params,  \* x, y, size, strength of the last _remove_watermark call
    \* ---- GreenScreenBackend instance and its environment
    gs_mode,         \* self.mode
    gs_strength,     \* self.strength (after BaseBackend's clamp)
    gs_config,       \* self._gs_config (GreenScreenConfig)
    gs_model_loaded, \* self._model_loaded
    gs_processor,    \* self._gs_processor is not None
    gs_ai_session,   \* self._ai_session is not None
    gs_world,        \* per pixel: input RGB, refined green mask, AI matte answer
    gs_ai_fails,     \* the AI matte provider raises on this image
    gs_session_fails,\* new_session raises
    gs_sessions,     \* number of new_session calls so far
    gs_ai_calls,     \* number of remove calls so far
    gs_calls,        \* number of public calls made on the backend so far
    gs_chroma,       \* chroma_result of the last process call, or "none"
    gs_output,       \* the image written to output_path, or "none"
    gs_return,       \* outcome of the last process call
    \* ---- direct calls of the two despill implementations
    ds_image,        \* RGBA pixels handed to the despill stages
    ds_strength,     \* despill strength
    ds_out_proc,     \* result of GreenScreenProcessor.despill_green, or "none"
    ds_out_back,     \* result of GreenScreenBackend._apply_despill, or "none"
    ds_twin,         \* ds_image with another alpha channel, the same R, G, B
    ds_out_twin,     \* result of _apply_despill on ds_twin, or "none"
    \* ---- ImageProcessor.process_folder over the watermark backend
    pf_folder,       \* entries of config.input_folder: name, is_file, image
    pf_default_output,  \* config.output_folder is input_folder / 'output'
    pf_pc,           \* "start", "loop", "done" (returned) or "crashed" (raised)
    pf_image_files,  \* image_files, as scanned
    pf_i,            \* index into image_files of the next image
    pf_passed,       \* names of the files passed to backend.process, in order
    pf_returns,      \* what those process calls returned
    pf_success,      \* success_count
    pf_result,       \* the ProcessResult returned
    pf_outputs,      \* files written in config.output_folder, by name
    pf_ref_loads,    \* per size, how often the reference image was loaded
    pf_load_calls,   \* how often the backend's load_model was executed
    \* ---- construction of a backend
    ct_name,         \* backend name (class, or name given to the registry)
    ct_via,          \* "direct" (the class is called) or "registry" (create)
    ct_model,        \* the model argument
    ct_requested,    \* the strength argument
    ct_outcome,      \* "pending", "instance", "ValueError" or "KeyError"
    ct_instance,     \* the fields of the instance produced, if any
    \* ---- GreenScreenProcessor.refine_mask
    rf_config,       \* edge_blur, erode_size, feather_amount of the config
    rf_raw,          \* the mask handed to refine_mask
    rf_mask,         \* the local variable refined
    rf_trace,        \* the cv2 operations applied so far, with kernel sizes
    rf_pc            \* the statement refine_mask is at

VARIABLES
    cf_args,         \* the arguments ProcessConfig is constructed with
    cf_config,       \* the ProcessConfig object constructed, if any
    cf_pc            \* "args" before the construction, "built" after it

VARIABLES
    hs_file,         \* the history file: absent, unreadable, or a JSON list
    hs_last,         \* the path of the last save call, as it was given
    hs_saves         \* number of save calls made

VARIABLES
    mn_pc,           \* where main is: "start", at a prompt, or "exited"
    mn_folder,       \* run's local variable folder
    mn_last_result_success,  \* main's local variable of that name
    mn_output,       \* what was written to the console, in order
    mn_prompts,      \* number of times the folder path was asked for
    mn_cancelled,    \* run returned None: the user cancelled in the wizard
    mn_exception,    \* the exception that left main's try block, if any
    mn_exit          \* the exit code main returned

rmVars == <<rm_image, rm_before, rm_params, rm_pc>>
wmVars == <<wm_model, wm_requested, wm_strength, wm_model_loaded, wm_alpha_maps,
            wm_assets, wm_input, wm_config, wm_output, wm_return, wm_last_loads,
            wm_last_params>>
gsVars == <<gs_mode, gs_strength, gs_config, gs_model_loaded, gs_processor,
            gs_ai_session, gs_world, gs_ai_fails, gs_session_fails, gs_sessions,
            gs_ai_calls,
            gs_calls, gs_chroma, gs_output, gs_return>>
dsVars == <<ds_image, ds_strength, ds_out_proc, ds_out_back, ds_twin, ds_out_twin>>
pfVars == <<pf_folder, pf_default_output, pf_pc, pf_image_files, pf_i, pf_passed, pf_returns,
            pf_success, pf_result, pf_outputs, pf_ref_loads, pf_load_calls>>
ctVars == <<ct_name, ct_via, ct_model, ct_requested, ct_outcome, ct_instance>>
rfVars == <<rf_config, rf_raw, rf_mask, rf_trace, rf_pc>>
cfVars == <<cf_args, cf_config, cf_pc>>
coreVars == <<rmVars, wmVars, gsVars, dsVars, pfVars, ctVars, rfVars>>
hsVars == <<hs_file, hs_last, hs_saves>>
mnVars == <<mn_pc, mn_folder, mn_last_result_success, mn_output, mn_prompts,
            mn_cancelled, mn_exception, mn_exit>>
uiVars == <<cfVars, hsVars, mnVars>>
vars == <<coreVars, uiVars>>

----------------------------------------------------------------------------
(* Exact rational arithmetic standing for Python float arithmetic.         *)

Abs(n) == IF n < 0 THEN -n ELSE n

RECURSIVE GCD(_, _)
GCD(a, b) == IF b = 0 THEN Abs(a) ELSE GCD(b, a % b)

\* The rational n/d in lowest terms with a positive denominator.
Rat(n, d) ==
    LET g == GCD(Abs(n), Abs(d))
        s == IF d < 0 THEN -1 ELSE 1
    IN  <<(s * n) \div g, (s * d) \div g>>

FromInt(n) == <<n, 1>>

RatLT(a, b) == a[1] * b[2] < b[1] * a[2]

RatMin(a, b) == IF RatLT(b, a) THEN b ELSE a

RatMax(a, b) == IF RatLT(a, b) THEN b ELSE a

RatAdd(a, b) ==
    LET g == GCD(a[2], b[2])
    IN  Rat(a[1] * (b[2] \div g) + b[1] * (a[2] \div g), (a[2] \div g) * b[2])

RatSub(a, b) == RatAdd(a, <<-b[1], b[2]>>)

RatMul(a, b) ==
    LET g1 == GCD(Abs(a[1]), b[2])
        g2 == GCD(Abs(b[1]), a[2])
    IN  Rat((a[1] \div g1) * (b[1] \div g2), (a[2] \div g2) * (b[2] \div g1))

\* a / b for b > 0 (the code divides by one_minus_alpha >= 0.01 only).
RatDiv(a, b) == RatMul(a, <<b[2], b[1]>>)

\* Largest integer <= q.
Floor(q) == q[1] \div q[2]

\* round(float): the nearest integer; both neighbours at an exact tie.
RoundChoices(q) ==
    LET f == Floor(q)
        r == q[1] - f * q[2]
    IN  IF 2 * r < q[2] THEN {f}
        ELSE IF 2 * r > q[2] THEN {f + 1}
        ELSE {f, f + 1}

\* max(0, min(255, n))
Clamp255(n) == IF n < 0 THEN 0 ELSE IF n > 255 THEN 255 ELSE n

----------------------------------------------------------------------------
(* gemini_watermark.py: constants and pure functions.                      *)

\* Variant of ALPHA_THRESHOLD: a threshold of 0.001, which lets alpha values
\* in [0.001, 0.002) through to the inversion.
ALPHA_THRESHOLD_low == <<1, 1000>>

ALPHA_THRESHOLD == <<2, 1000>>

\* Variant of MAX_ALPHA: a cap of 0.999 instead of 0.99.
MAX_ALPHA_loose == <<999, 1000>>

MAX_ALPHA == <<99, 100>>

LOGO_VALUE == 255

WATERMARK_SIZE_THRESHOLD == 1024

AVAILABLE_MODES == {"auto", "48px", "96px"}

WatermarkConfig(logo_size, margin_right, margin_bottom) ==
    [logo_size |-> logo_size, margin_right |-> margin_right,
     margin_bottom |-> margin_bottom]

Max2(a, b) == IF a >= b THEN a ELSE b

Max3(a, b, c) == Max2(a, Max2(b, c))

\* _calculate_alpha_map: per reference pixel max(r, g, b) / 255.0.
\* bg_pixels maps list indices to RGB tuples.
_calculate_alpha_map(bg_pixels) ==
    [i \in DOMAIN bg_pixels |->
        Rat(Max3(bg_pixels[i][1], bg_pixels[i][2], bg_pixels[i][3]), 255)]

\* Variant of _detect_watermark_config: "or" in place of "and".
_detect_watermark_config_or(width, height) ==
    IF width > WATERMARK_SIZE_THRESHOLD \/ height > WATERMARK_SIZE_THRESHOLD
    THEN WatermarkConfig(96, 64, 64)
    ELSE WatermarkConfig(48, 32, 32)

\* _detect_watermark_config(width, height)
_detect_watermark_config(width, height) ==
    IF width > WATERMARK_SIZE_THRESHOLD /\ height > WATERMARK_SIZE_THRESHOLD
    THEN WatermarkConfig(96, 64, 64)
    ELSE WatermarkConfig(48, 32, 32)

\* _calculate_watermark_position(image_width, image_height, config)
_calculate_watermark_position(image_width, image_height, config) ==
    <<image_width - config.margin_right - config.logo_size,
      image_height - config.margin_bottom - config.logo_size>>

\* Variant of ChannelChoices: the two blend weights exchanged
\* (watermarked * strength + original * (1 - strength)).
ChannelChoices_swapped(watermarked, wm_alpha, strength) ==
    LET one_minus_alpha == RatSub(FromInt(1), wm_alpha)
        original == RatDiv(RatSub(FromInt(watermarked),
                                  RatMul(wm_alpha, FromInt(LOGO_VALUE))),
                           one_minus_alpha)
        blended == RatAdd(RatMul(FromInt(watermarked), strength),
                          RatMul(original, RatSub(FromInt(1), strength)))
    IN  {Clamp255(n) : n \in RoundChoices(blended)}

\* One channel of one pixel: the values max(0, min(255, round(blended))) can
\* take, for the watermarked channel value, the (already capped) wm_alpha
\* and the strength.
ChannelChoices(watermarked, wm_alpha, strength) ==
    LET one_minus_alpha == RatSub(FromInt(1), wm_alpha)
        original == RatDiv(RatSub(FromInt(watermarked),
                                  RatMul(wm_alpha, FromInt(LOGO_VALUE))),
                           one_minus_alpha)
        blended == RatAdd(RatMul(FromInt(watermarked),
                                 RatSub(FromInt(1), strength)),
                          RatMul(original, strength))
    IN  {Clamp255(n) : n \in RoundChoices(blended)}

\* Body of the row/col loop for one pixel: the tuples that can be stored
\* at pixels[px_x, px_y] (the pixel itself when the alpha value is skipped).
PixelChoices(px, alpha_value, strength, has_alpha) ==
    IF RatLT(alpha_value, ALPHA_THRESHOLD) THEN {px}
    ELSE LET wm_alpha == RatMin(alpha_value, MAX_ALPHA)
             R == ChannelChoices(px[1], wm_alpha, strength)
             G == ChannelChoices(px[2], wm_alpha, strength)
             B == ChannelChoices(px[3], wm_alpha, strength)
         IN  IF has_alpha
             THEN {<<r, g, b, a>> : r \in R, g \in G, b \in B,
                                    a \in ChannelChoices(px[4], wm_alpha, strength)}
             ELSE {<<r, g, b>> : r \in R, g \in G, b \in B}

\* The functions f on the coordinate set S with f[c] \in cand[c].
RECURSIVE Assignments(_, _)
Assignments(S, cand) ==
    IF S = {} THEN {<<>>}
    ELSE LET c == CHOOSE c \in S : TRUE
         IN  {f @@ (c :> v) : f \in Assignments(S \ {c}, cand), v \in cand[c]}

\* Is the tracked pixel c visited by "for row in range(size): for col in
\* range(size)" with px_x = x + col, px_y = y + row?
InRegion(c, params) ==
    /\ c[1] >= params.x /\ c[1] < params.x + params.size
    /\ c[2] >= params.y /\ c[2] < params.y + params.size

\* alpha_idx = row * size + col of the tracked pixel c.
AlphaIdx(c, params) == (c[2] - params.y) * params.size + (c[1] - params.x)

\* _remove_watermark(image, params): the pixel maps the call can leave in
\* the image (one map unless some channel lands on a rounding tie).
_remove_watermark(image, params) ==
    LET has_alpha == image.mode = "RGBA"
        cand == [c \in DOMAIN image.px |->
                    IF InRegion(c, params)
                    THEN PixelChoices(image.px[c],
                                      params.alpha_map[AlphaIdx(c, params)],
                                      params.strength, has_alpha)
                    ELSE {image.px[c]}]
    IN  Assignments(DOMAIN image.px, cand)

----------------------------------------------------------------------------
(* Direct calls of _remove_watermark on small, fully tracked images.       *)

\* Side of the square test image and largest watermark size tried on it.
ImgSide == 3

MaxSize == 2

\* Strengths handed to _remove_watermark / the despill stages.
Strengths == {<<0, 1>>, <<1, 2>>, <<7, 10>>, <<1, 1>>}

\* Alpha-map values the alpha maps are built from: 0, just below the
\* threshold, the threshold, 67/255 (rounding ties), 1/2, the cap, above it.
AlphaSeq == <<Rat(0, 255), Rat(199, 100000), Rat(2, 1000), Rat(67, 255),
              Rat(1, 2), Rat(99, 100), Rat(253, 255), Rat(255, 255)>>

\* Pixel values the test images are built from (R, G, B, A).
ColourSeq == <<(<<1, 200, 255, 128>>), (<<161, 105, 0, 255>>),
               (<<253, 100, 50, 1>>), (<<0, 254, 128, 0>>)>>

Cycle(seq, i) == seq[(i % Len(seq)) + 1]

Coords(w, h) == (0 .. w - 1) \X (0 .. h - 1)

\* The w x h image whose pixel (x, y) is ColourSeq cycled from cshift.
TestImage(mode, w, h, cshift) ==
    [mode |-> mode, width |-> w, height |-> h,
     px |-> [c \in Coords(w, h) |->
               LET v == Cycle(ColourSeq, c[2] * w + c[1] + cshift)
               IN  IF mode = "RGBA" THEN v ELSE <<v[1], v[2], v[3]>>]]

\* The size*size alpha map whose entry i is AlphaSeq cycled from ashift.
TestAlphaMap(size, ashift) ==
    [i \in 0 .. size * size - 1 |-> Cycle(AlphaSeq, i + ashift)]

RmInit ==
    /\ \E mode \in {"RGB", "RGBA"}, cshift \in 0 .. Len(ColourSeq) - 1 :
          rm_image = TestImage(mode, ImgSide, ImgSide, cshift)
    /\ rm_before = rm_image
    /\ \E size \in 1 .. MaxSize, ashift \in 0 .. Len(AlphaSeq) - 1,
          strength \in Strengths :
          \E x \in 0 .. ImgSide - size, y \in 0 .. ImgSide - size :
             rm_params = [alpha_map |-> TestAlphaMap(size, ashift),
                          x |-> x, y |-> y, size |-> size,
                          strength |-> strength]
    /\ rm_pc = "ready"

\* The call _remove_watermark(rm_image, rm_params).
RemoveWatermarkCall ==
    /\ rm_pc = "ready"
    /\ \E px \in _remove_watermark(rm_image, rm_params) :
          rm_image' = [rm_image EXCEPT !.px = px]
    /\ rm_pc' = "done"
    /\ UNCHANGED <<rm_before, rm_params>>

----------------------------------------------------------------------------
(* core/interfaces.py: BaseBackend.                                        *)

\* Variant of BaseBackendStrength: only the upper limit is applied.
BaseBackendStrength_upper(strength) == RatMin(<<1, 1>>, strength)

\* BaseBackend.__init__: self.strength = max(0.1, min(1.0, strength))
BaseBackendStrength(strength) ==
    RatMax(<<1, 10>>, RatMin(<<1, 1>>, strength))

----------------------------------------------------------------------------
(* GeminiWatermarkBackend.                                                 *)

\* Image widths and heights tried: around logo_size + margin of both
\* geometries (80, 160), around the size threshold, and the spec's examples.
DimValues == {50, 79, 80, 159, 160, 800, 1024, 1025, 2000}

\* Strengths requested from the constructors.
RequestedStrengths == {<<0, 1>>, <<1, 2>>, <<1, 1>>}

\* Tracked pixels, as distances <<dx, dy>> from the right and bottom edges:
\* pixel <<width - dx, height - dy>>.  They are the first and last pixel of
\* the 48px region (80, 33) and of the 96px region (160, 65), their outer
\* neighbours, and the bottom-right pixel of the image.
TrackedBR == {<<80, 80>>, <<33, 33>>, <<81, 80>>, <<32, 33>>,
              <<160, 160>>, <<65, 65>>, <<161, 160>>, <<64, 65>>, <<1, 1>>}

TrackedCoords(w, h) ==
    {<<w - d[1], h - d[2]>> : d \in {e \in TrackedBR : e[1] <= w /\ e[2] <= h}}

\* The alpha-map indices row*size+col that tracked pixels can have in the
\* size x size region of the geometry with the given margin.
TrackedIdx(size, margin) ==
    {(margin + size - d[2]) * size + (margin + size - d[1]) :
        d \in {e \in TrackedBR : /\ e[1] > margin /\ e[1] <= margin + size
                                 /\ e[2] > margin /\ e[2] <= margin + size}}

MarginOf(size) == IF size = 96 THEN 64 ELSE 32

\* Reference pixels (R, G, B) the bundled reference images are built from.
RefColourSeq == <<(<<0, 0, 0>>), (<<67, 10, 3>>), (<<255, 255, 255>>),
                  (<<12, 128, 127>>)>>

\* The tracked pixels of a reference image bg_<size>.png.
RefImage(size, rshift) ==
    [i \in TrackedIdx(size, MarginOf(size)) |-> Cycle(RefColourSeq, i + rshift)]

\* What assets/bg_<size>.png can be: absent, or one of two reference images.
AssetChoices(size) ==
    {[exists |-> FALSE, px |-> <<>>]}
        \cup {[exists |-> TRUE, px |-> RefImage(size, r)] : r \in 0 .. 1}

\* No image / no configuration (nothing written, nothing chosen yet).
NoImage == [mode |-> "none", width |-> 0, height |-> 0, px |-> <<>>]

NoConfig == WatermarkConfig(0, 0, 0)

\* A file Image.open cannot decode.
CorruptFile == [mode |-> "corrupt", width |-> 0, height |-> 0, px |-> <<>>]

\* An image file of the given mode and size ("L" is a one-channel mode).
InputImage(mode, w, h, cshift) ==
    [mode |-> mode, width |-> w, height |-> h,
     px |-> [c \in TrackedCoords(w, h) |->
               LET v == Cycle(ColourSeq, c[1] + c[2] + cshift)
               IN  CASE mode = "RGBA" -> v
                     [] mode = "RGB" -> <<v[1], v[2], v[3]>>
                     [] OTHER -> <<v[1]>>]]

\* Image.convert("RGB") of a one-channel image.
ConvertRGB(image) ==
    [image EXCEPT !.mode = "RGB",
                  !.px = [c \in DOMAIN image.px |->
                            <<image.px[c][1], image.px[c][1], image.px[c][1]>>]]

\* load_model: sizes_to_load
SizesToLoad(model) ==
    IF model = "48px" THEN <<48>>
    ELSE IF model = "96px" THEN <<96>>
    ELSE <<48, 96>>

\* load_model: the loop over sizes_to_load.  _load_reference_image raises
\* FileNotFoundError at the first missing asset; entries stored before it
\* stay in the cache.  loaded lists the sizes whose reference image was
\* read and whose entry was (re)assigned, in order.
RECURSIVE LoadLoop(_, _, _)
LoadLoop(sizes, maps, assets) ==
    IF sizes = <<>> THEN [maps |-> maps, raised |-> FALSE, loaded |-> <<>>]
    ELSE IF ~assets[Head(sizes)].exists
    THEN [maps |-> maps, raised |-> TRUE, loaded |-> <<>>]
    ELSE LET rest == LoadLoop(Tail(sizes),
                         (Head(sizes) :>
                             _calculate_alpha_map(assets[Head(sizes)].px)) @@ maps,
                         assets)
         IN  [rest EXCEPT !.loaded = <<Head(sizes)>> \o @]

\* _get_alpha_map(logo_size): the cached map, loaded on a miss.
_get_alpha_map(maps, assets, logo_size) ==
    IF logo_size \in DOMAIN maps
    THEN [maps |-> maps, raised |-> FALSE, loaded |-> <<>>]
    ELSE LoadLoop(<<logo_size>>, maps, assets)

\* process: the wm_config chosen for the mode and the image size.
SelectConfig(model, width, height) ==
    IF model = "48px" THEN WatermarkConfig(48, 32, 32)
    ELSE IF model = "96px" THEN WatermarkConfig(96, 64, 64)
    ELSE _detect_watermark_config(width, height)

\* Variant of MinSize: the margins left out of the smallest side.
MinSize_logo_only(config) ==
    config.logo_size

\* process: min_size and the size check.
MinSize(config) ==
    config.logo_size + Max2(config.margin_right, config.margin_bottom)

TooSmall(width, height, config) ==
    width < MinSize(config) \/ height < MinSize(config)

\* No _remove_watermark call (yet, or in the last process call).
NoParams == [x |-> 0, y |-> 0, size |-> 0, strength |-> <<0, 1>>]

\* GeminiWatermarkBackend(model, strength) as constructed, and the asset
\* files it will find.
WmBackendInit ==
    /\ wm_model \in AVAILABLE_MODES
    /\ wm_requested \in RequestedStrengths
    /\ wm_strength = BaseBackendStrength(wm_requested)
    /\ wm_model_loaded = FALSE
    /\ wm_alpha_maps = <<>>
    /\ \E a48 \in AssetChoices(48), a96 \in AssetChoices(96) :
          wm_assets = (48 :> a48) @@ (96 :> a96)
    /\ wm_config = NoConfig
    /\ wm_output = NoImage
    /\ wm_return = "none"
    /\ wm_last_loads = <<>>
    /\ wm_last_params = NoParams

WmInit ==
    /\ WmBackendInit
    /\ \/ \E mode \in {"RGB", "RGBA", "L"}, w \in DimValues, h \in DimValues :
             wm_input = InputImage(mode, w, h, 0)
       \/ wm_input = CorruptFile

\* GeminiWatermarkBackend.load_model(), called directly (as process_folder
\* does before its loop): [maps, raised, loaded] after the call.  It does
\* not touch _model_loaded.
LoadModel == LoadLoop(SizesToLoad(wm_model), wm_alpha_maps, wm_assets)

WmLoadModel ==
    /\ wm_alpha_maps' = LoadModel.maps
    /\ wm_last_loads' = LoadModel.loaded
    /\ UNCHANGED <<wm_model, wm_requested, wm_strength, wm_model_loaded,
                   wm_assets, wm_input, wm_config, wm_output, wm_return,
                   wm_last_params>>

\* The try block of process for the image stored at input_path, entered
\* with the cache as load left it: the record [maps, config, output, ret,
\* loaded, params] it ends with, for any of the pixel maps out that
\* _remove_watermark can produce.
ProcessBody(input, maps) ==
    IF input.mode = "corrupt"
    THEN {[maps |-> maps, config |-> NoConfig, output |-> wm_output,
           ret |-> "False", loaded |-> <<>>, params |-> NoParams]}
    ELSE
    LET width == input.width
        height == input.height
        config == SelectConfig(wm_model, width, height)
        got == _get_alpha_map(maps, wm_assets, config.logo_size)
        pos == _calculate_watermark_position(width, height, config)
        image == IF input.mode \notin {"RGB", "RGBA"}
                 THEN ConvertRGB(input) ELSE input
        params == [alpha_map |-> got.maps[config.logo_size],
                   x |-> pos[1], y |-> pos[2], size |-> config.logo_size,
                   strength |-> wm_strength]
    IN  IF TooSmall(width, height, config)
        THEN {[maps |-> maps, config |-> config, output |-> input,
               ret |-> "True", loaded |-> <<>>, params |-> NoParams]}
        ELSE IF got.raised
        THEN {[maps |-> got.maps, config |-> config, output |-> wm_output,
               ret |-> "False", loaded |-> got.loaded, params |-> NoParams]}
        ELSE {[maps |-> got.maps, config |-> config,
               output |-> [image EXCEPT !.px = out], ret |-> "True",
               loaded |-> got.loaded,
               params |-> [x |-> params.x, y |-> params.y, size |-> params.size,
                           strength |-> params.strength]] :
                 out \in _remove_watermark(image, params)}

\* GeminiWatermarkBackend.process(input_path, output_path) for the image
\* stored at input_path.  ensure_model_loaded() runs before the try block:
\* an exception of load_model leaves process as an exception, "raised".
ProcessCall(input) ==
    LET load == IF wm_model_loaded
                THEN [maps |-> wm_alpha_maps, raised |-> FALSE, loaded |-> <<>>]
                ELSE LoadModel
    IN  IF load.raised
        THEN /\ wm_alpha_maps' = load.maps
             /\ wm_return' = "raised"
             /\ wm_last_loads' = load.loaded
             /\ wm_last_params' = NoParams
             /\ UNCHANGED <<wm_model, wm_requested, wm_strength, wm_model_loaded,
                            wm_assets, wm_config, wm_output>>
        ELSE /\ wm_model_loaded' = TRUE
             /\ \E r \in ProcessBody(input, load.maps) :
                   /\ wm_alpha_maps' = r.maps
                   /\ wm_config' = r.config
                   /\ wm_output' = r.output
                   /\ wm_return' = r.ret
                   /\ wm_last_loads' = load.loaded \o r.loaded
                   /\ wm_last_params' = r.params
             /\ UNCHANGED <<wm_model, wm_requested, wm_strength, wm_assets>>

\* BaseBackend.ensure_model_loaded() on the watermark backend: load_model
\* and _model_loaded = True unless the model is loaded; an exception of
\* load_model leaves _model_loaded False.
WmEnsureModelLoaded ==
    /\ IF wm_model_loaded
       THEN /\ wm_last_loads' = <<>>
            /\ UNCHANGED <<wm_alpha_maps, wm_model_loaded>>
       ELSE /\ wm_alpha_maps' = LoadModel.maps
            /\ wm_last_loads' = LoadModel.loaded
            /\ wm_model_loaded' = ~LoadModel.raised
    /\ UNCHANGED <<wm_model, wm_requested, wm_strength, wm_assets, wm_input,
                   wm_config, wm_output, wm_return, wm_last_params>>

\* ImageProcessor.process_single(input_path, output_path) on the file
\* wm_input: ensure_model_loaded(), then process, whose own
\* ensure_model_loaded() finds the model loaded; an exception of
\* load_model leaves process_single as an exception.
WmProcessSingle ==
    /\ ProcessCall(wm_input)
    /\ UNCHANGED wm_input

\* process called on the file wm_input.
WmProcess ==
    /\ ProcessCall(wm_input)
    /\ UNCHANGED wm_input

----------------------------------------------------------------------------
(* postprocess/green_screen.py and backends/greenscreen.py.                *)

GS_AVAILABLE_MODES == {"hybrid", "chroma-only", "ai-enhanced"}

\* Number of pixels of the images of the green-screen model.
NPix == 2

\* Bound on the number of public calls made on one backend instance.
MaxCalls == 3

\* GreenScreenProcessor.despill_green for one pixel <<r, g, b>>:
\* rb_avg = (r + b) / 2, green_excess = g - rb_avg, spill_mask = excess > 0,
\* new_g = g - green_excess * strength * spill_mask, clipped, cast to uint8.
despill_green(rgb, strength) ==
    LET rb_avg == Rat(rgb[1] + rgb[3], 2)
        green_excess == RatSub(FromInt(rgb[2]), rb_avg)
        spill_mask == IF RatLT(FromInt(0), green_excess) THEN 1 ELSE 0
        new_g == RatSub(FromInt(rgb[2]),
                        RatMul(RatMul(green_excess, strength), FromInt(spill_mask)))
        clipped == RatMax(FromInt(0), RatMin(FromInt(255), new_g))
    IN  <<rgb[1], Floor(clipped), rgb[3]>>

\* GreenScreenProcessor.apply_chroma_key + process_image for one pixel of an
\* RGB image (existing_alpha is None): alpha = 255 - green_mask, where
\* green_mask is the refined mask; the colour is despilled.
process_image(pixels, masks, config) ==
    [i \in DOMAIN pixels |->
        LET d == despill_green(pixels[i], config.despill_strength)
        IN  <<d[1], d[2], d[3], 255 - masks[i]>>]

\* GreenScreenBackend._apply_despill on a sequence of RGBA pixels.
_apply_despill(rgba, strength) ==
    IF ~\E i \in DOMAIN rgba : rgba[i][4] > 0 THEN rgba
    ELSE [i \in DOMAIN rgba |->
            LET rb_avg == Rat(rgba[i][1] + rgba[i][3], 2)
                green_excess == RatMax(RatSub(FromInt(rgba[i][2]), rb_avg),
                                       FromInt(0))
                new_g == RatSub(FromInt(rgba[i][2]), RatMul(green_excess, strength))
                clipped == RatMax(FromInt(0), RatMin(FromInt(255), new_g))
            IN  <<rgba[i][1], Floor(clipped), rgba[i][3], rgba[i][4]>>]

Min2(a, b) == IF a <= b THEN a ELSE b

\* Variant of _merge_alpha_channels: the two alphas averaged.
_merge_alpha_channels_avg(chroma_rgba, ai_rgba) ==
    [i \in DOMAIN ai_rgba |->
        <<ai_rgba[i][1], ai_rgba[i][2], ai_rgba[i][3],
          (chroma_rgba[i][4] + ai_rgba[i][4]) \div 2>>]

\* GreenScreenBackend._merge_alpha_channels(chroma_image, ai_image)
_merge_alpha_channels(chroma_rgba, ai_rgba) ==
    [i \in DOMAIN ai_rgba |->
        <<ai_rgba[i][1], ai_rgba[i][2], ai_rgba[i][3],
          Min2(chroma_rgba[i][4], ai_rgba[i][4])>>]

\* What one pixel of the world can be: the input colour, the refined green
\* mask cv2 computes at it, and the AI matte provider's RGBA answer.
PixelCases ==
    {[rgb |-> <<50, 200, 50>>,  mask |-> 255, ai |-> <<50, 200, 50, 0>>],
     [rgb |-> <<200, 50, 50>>,  mask |-> 0,   ai |-> <<201, 50, 49, 255>>],
     [rgb |-> <<60, 180, 71>>,  mask |-> 55,  ai |-> <<58, 182, 71, 150>>],
     [rgb |-> <<0, 10, 1>>,     mask |-> 0,   ai |-> <<0, 10, 1, 0>>],
     [rgb |-> <<10, 255, 20>>,  mask |-> 255, ai |-> <<12, 250, 20, 255>>],
     [rgb |-> <<90, 140, 100>>, mask |-> 105, ai |-> <<90, 141, 100, 200>>]}

WorldRGB == [i \in DOMAIN gs_world |-> gs_world[i].rgb]

WorldMask == [i \in DOMAIN gs_world |-> gs_world[i].mask]

WorldAI == [i \in DOMAIN gs_world |-> gs_world[i].ai]

GsInit ==
    /\ gs_mode \in GS_AVAILABLE_MODES
    /\ \E s \in RequestedStrengths :
          /\ gs_strength = BaseBackendStrength(s)
          /\ gs_config = [despill_strength |-> s, edge_blur |-> 3,
                          erode_size |-> 2, feather_amount |-> 2]
    /\ gs_model_loaded = FALSE
    /\ gs_processor = FALSE
    /\ gs_ai_session = FALSE
    /\ gs_world \in [1 .. NPix -> PixelCases]
    /\ gs_ai_fails \in BOOLEAN
    /\ gs_session_fails \in BOOLEAN
    /\ gs_sessions = 0
    /\ gs_ai_calls = 0
    /\ gs_calls = 0
    /\ gs_chroma = <<>>
    /\ gs_output = <<>>
    /\ gs_return = "none"

\* Variant of GsLoad: the AI session is created in every mode.
GsLoad_always ==
    IF gs_session_fails
    THEN [processor |-> TRUE, session |-> gs_ai_session,
          sessions |-> gs_sessions + 1, raised |-> TRUE]
    ELSE [processor |-> TRUE, session |-> TRUE,
          sessions |-> gs_sessions + 1, raised |-> FALSE]

\* GreenScreenBackend.load_model(): [processor, session, sessions, raised]
\* after the call.  new_session is called in hybrid and ai-enhanced only.
GsLoad ==
    IF gs_mode \in {"hybrid", "ai-enhanced"}
    THEN IF gs_session_fails
         THEN [processor |-> TRUE, session |-> gs_ai_session,
               sessions |-> gs_sessions + 1, raised |-> TRUE]
         ELSE [processor |-> TRUE, session |-> TRUE,
               sessions |-> gs_sessions + 1, raised |-> FALSE]
    ELSE [processor |-> TRUE, session |-> gs_ai_session,
          sessions |-> gs_sessions, raised |-> FALSE]

\* load_model() called directly (as process_folder does before its loop).
GsLoadModel ==
    /\ gs_calls < MaxCalls
    /\ gs_calls' = gs_calls + 1
    /\ gs_processor' = GsLoad.processor
    /\ gs_ai_session' = GsLoad.session
    /\ gs_sessions' = GsLoad.sessions
    /\ UNCHANGED <<gs_mode, gs_strength, gs_config, gs_model_loaded, gs_world,
                   gs_ai_fails, gs_session_fails, gs_ai_calls, gs_chroma,
                   gs_output, gs_return>>

\* BaseBackend.ensure_model_loaded() called directly (as process_single does).
GsEnsureModelLoaded ==
    /\ gs_calls < MaxCalls
    /\ gs_calls' = gs_calls + 1
    /\ IF gs_model_loaded
       THEN UNCHANGED <<gs_processor, gs_ai_session, gs_sessions, gs_model_loaded>>
       ELSE /\ gs_processor' = GsLoad.processor
            /\ gs_ai_session' = GsLoad.session
            /\ gs_sessions' = GsLoad.sessions
            /\ gs_model_loaded' = ~GsLoad.raised
    /\ UNCHANGED <<gs_mode, gs_strength, gs_config, gs_world, gs_ai_fails,
                   gs_session_fails, gs_ai_calls, gs_chroma, gs_output, gs_return>>

\* Variant of GsProcessBody: when the AI matte provider fails, the result
\* of the chroma-only path is written instead.
GsProcessBody_fallback(processor, session) ==
    LET fail(c, n) == [chroma |-> c, output |-> gs_output, ret |-> "False",
                       ai_calls |-> n]
        chroma == process_image(WorldRGB, WorldMask, gs_config)
    IN
    IF ~processor THEN fail(<<>>, gs_ai_calls)
    ELSE IF gs_mode = "chroma-only"
    THEN [chroma |-> chroma, output |-> _apply_despill(chroma, gs_strength),
          ret |-> "True", ai_calls |-> gs_ai_calls]
    ELSE IF ~session THEN fail(chroma, gs_ai_calls)
    ELSE IF gs_ai_fails
    THEN [chroma |-> chroma, output |-> _apply_despill(chroma, gs_strength),
          ret |-> "True", ai_calls |-> gs_ai_calls + 1]
    ELSE IF gs_mode = "ai-enhanced"
    THEN [chroma |-> chroma, output |-> _merge_alpha_channels(chroma, WorldAI),
          ret |-> "True", ai_calls |-> gs_ai_calls + 1]
    ELSE [chroma |-> chroma,
          output |-> _apply_despill(_merge_alpha_channels(chroma, WorldAI),
                                    gs_strength),
          ret |-> "True", ai_calls |-> gs_ai_calls + 1]

\* Variant of GsProcessBody: ai-enhanced despills the merged image as
\* hybrid does.
GsProcessBody_despill(processor, session) ==
    LET fail(c, n) == [chroma |-> c, output |-> gs_output, ret |-> "False",
                       ai_calls |-> n]
        chroma == process_image(WorldRGB, WorldMask, gs_config)
    IN
    IF ~processor THEN fail(<<>>, gs_ai_calls)
    ELSE IF gs_mode = "chroma-only"
    THEN [chroma |-> chroma, output |-> _apply_despill(chroma, gs_strength),
          ret |-> "True", ai_calls |-> gs_ai_calls]
    ELSE IF ~session THEN fail(chroma, gs_ai_calls)
    ELSE IF gs_ai_fails THEN fail(chroma, gs_ai_calls + 1)
    ELSE [chroma |-> chroma,
          output |-> _apply_despill(_merge_alpha_channels(chroma, WorldAI),
                                    gs_strength),
          ret |-> "True", ai_calls |-> gs_ai_calls + 1]

\* The try block of GreenScreenBackend.process, entered with the given
\* _gs_processor / _ai_session: [chroma, output, ret, ai_calls].
GsProcessBody(processor, session) ==
    LET fail(c, n) == [chroma |-> c, output |-> gs_output, ret |-> "False",
                       ai_calls |-> n]
        chroma == process_image(WorldRGB, WorldMask, gs_config)
    IN
    IF ~processor THEN fail(<<>>, gs_ai_calls)
    ELSE IF gs_mode = "chroma-only"
    THEN [chroma |-> chroma, output |-> _apply_despill(chroma, gs_strength),
          ret |-> "True", ai_calls |-> gs_ai_calls]
    ELSE IF ~session THEN fail(chroma, gs_ai_calls)
    ELSE IF gs_ai_fails THEN fail(chroma, gs_ai_calls + 1)
    ELSE IF gs_mode = "ai-enhanced"
    THEN [chroma |-> chroma, output |-> _merge_alpha_channels(chroma, WorldAI),
          ret |-> "True", ai_calls |-> gs_ai_calls + 1]
    ELSE [chroma |-> chroma,
          output |-> _apply_despill(_merge_alpha_channels(chroma, WorldAI),
                                    gs_strength),
          ret |-> "True", ai_calls |-> gs_ai_calls + 1]

\* GreenScreenBackend.process(input_path, output_path).
\* ensure_model_loaded() runs before the try block.
GsProcess ==
    /\ gs_calls < MaxCalls
    /\ gs_calls' = gs_calls + 1
    /\ LET load == IF gs_model_loaded
                   THEN [processor |-> gs_processor, session |-> gs_ai_session,
                         sessions |-> gs_sessions, raised |-> FALSE]
                   ELSE GsLoad
           r == GsProcessBody(load.processor, load.session)
       IN  /\ gs_processor' = load.processor
           /\ gs_ai_session' = load.session
           /\ gs_sessions' = load.sessions
           /\ IF load.raised
              THEN /\ gs_return' = "raised"
                   /\ UNCHANGED <<gs_model_loaded, gs_ai_calls, gs_chroma, gs_output>>
              ELSE /\ gs_model_loaded' = TRUE
                   /\ gs_ai_calls' = r.ai_calls
                   /\ gs_chroma' = r.chroma
                   /\ gs_output' = r.output
                   /\ gs_return' = r.ret
    /\ UNCHANGED <<gs_mode, gs_strength, gs_config, gs_world, gs_ai_fails,
                   gs_session_fails>>

----------------------------------------------------------------------------
(* Direct calls of the two despill implementations.                        *)

\* RGBA pixels the despill test images are built from.
DsPixels == {<<50, 200, 50, 255>>, <<50, 200, 50, 0>>, <<200, 50, 50, 255>>,
             <<0, 10, 1, 128>>, <<60, 60, 60, 0>>, <<255, 255, 0, 7>>}

DsStrengths == {<<0, 1>>, <<1, 4>>, <<1, 2>>, <<7, 10>>, <<1, 1>>}

\* Alpha values the twin image carries at every pixel.
TwinAlphas == {0, 255}

DsInit ==
    /\ ds_image \in [1 .. NPix -> DsPixels]
    /\ ds_strength \in DsStrengths
    /\ ds_out_proc = <<>>
    /\ ds_out_back = <<>>
    /\ \E a \in TwinAlphas :
          ds_twin = [i \in DOMAIN ds_image |->
                       <<ds_image[i][1], ds_image[i][2], ds_image[i][3], a>>]
    /\ ds_out_twin = <<>>

\* GreenScreenProcessor.despill_green(image, mask) on the image's colours.
DespillGreenCall ==
    /\ ds_out_proc = <<>>
    /\ ds_out_proc' = [i \in DOMAIN ds_image |->
                         despill_green(<<ds_image[i][1], ds_image[i][2],
                                         ds_image[i][3]>>, ds_strength)]
    /\ UNCHANGED <<ds_image, ds_strength, ds_out_back, ds_twin, ds_out_twin>>

\* GreenScreenBackend._apply_despill(image) with self.strength = ds_strength.
ApplyDespillCall ==
    /\ ds_out_back = <<>>
    /\ ds_out_back' = _apply_despill(ds_image, ds_strength)
    /\ UNCHANGED <<ds_image, ds_strength, ds_out_proc, ds_twin, ds_out_twin>>

\* The same call on the twin image.
ApplyDespillTwinCall ==
    /\ ds_out_twin = <<>>
    /\ ds_out_twin' = _apply_despill(ds_twin, ds_strength)
    /\ UNCHANGED <<ds_image, ds_strength, ds_out_proc, ds_out_back, ds_twin>>

----------------------------------------------------------------------------
(* core/processor.py and core/models.py: ImageProcessor.process_folder     *)
(* driving a GeminiWatermarkBackend.                                       *)

\* File names a folder can hold, in the order sorted() gives their paths
\* (upper case sorts before lower case).
FileNames == <<"B.PNG", "a.jpg", "a.png", "notes.txt", "output">>

\* Path.suffix and Path.stem of those names, and str.lower of a suffix.
Suffix(name) ==
    CASE name = "B.PNG" -> ".PNG"
      [] name = "a.jpg" -> ".jpg"
      [] name = "a.png" -> ".png"
      [] name = "notes.txt" -> ".txt"
      [] OTHER -> ""

Stem(name) ==
    CASE name = "B.PNG" -> "B"
      [] name = "a.jpg" -> "a"
      [] name = "a.png" -> "a"
      [] name = "notes.txt" -> "notes"
      [] OTHER -> name

Lower(suffix) == IF suffix = ".PNG" THEN ".png" ELSE suffix

SUPPORTED_EXTENSIONS == {".jpg", ".jpeg", ".png", ".webp", ".bmp", ".gif"}

\* Variant of is_supported_image: every regular file counts as an image.
is_supported_image_any(entry) == entry.is_file

\* is_supported_image(path)
is_supported_image(entry) ==
    entry.is_file /\ Lower(Suffix(entry.name)) \in SUPPORTED_EXTENSIONS

\* Position of a name in sorted order.
NameRank(name) == CHOOSE k \in DOMAIN FileNames : FileNames[k] = name

\* sorted(folder.iterdir()): the entries by increasing path.
RECURSIVE Sorted(_)
Sorted(entries) ==
    IF entries = {} THEN <<>>
    ELSE LET first == CHOOSE e \in entries :
                         \A o \in entries : NameRank(e.name) <= NameRank(o.name)
         IN  <<first>> \o Sorted(entries \ {first})

\* ImageProcessor.scan_images(folder)
scan_images(folder) == SelectSeq(Sorted(folder), is_supported_image)

\* Images a file of the folder can hold.
BatchImages ==
    {InputImage("RGB", 800, 800, 0), InputImage("RGBA", 2000, 2000, 0),
     CorruptFile}

\* What the entry of a given name can be: "output" is a directory (left by
\* an earlier run with the default output folder), notes.txt a text file.
EntryChoices(name) ==
    IF name = "output"
    THEN {[name |-> name, is_file |-> FALSE, image |-> NoImage]}
    ELSE IF name = "notes.txt"
    THEN {[name |-> name, is_file |-> TRUE, image |-> CorruptFile]}
    ELSE {[name |-> name, is_file |-> TRUE, image |-> img] : img \in BatchImages}

\* The folders: any subset of the names, each with one of its entries.
RECURSIVE FolderChoices(_)
FolderChoices(k) ==
    IF k > Len(FileNames) THEN {{}}
    ELSE LET rest == FolderChoices(k + 1)
         IN  rest \cup {{e} \cup r : e \in EntryChoices(FileNames[k]), r \in rest}

\* No ProcessResult (process_folder has not returned).
NoResult == [total |-> 0, success |-> 0, failed |-> 0]

\* ProcessResult(total, success, failed, output_folder)
ProcessResult(total, success, failed) ==
    [total |-> total, success |-> success, failed |-> failed]

\* Path.mkdir(parents=True, exist_ok=True) of the directory of the given
\* name inside the folder: the directory is added unless it exists.
mkdir(folder, name) ==
    IF \E e \in folder : e.name = name THEN folder
    ELSE folder \cup {[name |-> name, is_file |-> FALSE, image |-> NoImage]}

\* An ImageProcessor around a newly constructed watermark backend (of the
\* default strength 1.0), and the folder it is about to process.
PfInit ==
    /\ WmBackendInit
    /\ wm_requested = <<1, 1>>
    /\ wm_input = NoImage
    /\ pf_folder \in FolderChoices(1)
    /\ pf_default_output \in BOOLEAN
    /\ pf_pc = "start"
    /\ pf_image_files = <<>>
    /\ pf_i = 0
    /\ pf_passed = <<>>
    /\ pf_returns = <<>>
    /\ pf_success = 0
    /\ pf_result = NoResult
    /\ pf_outputs = <<>>
    /\ pf_ref_loads = (48 :> 0) @@ (96 :> 0)
    /\ pf_load_calls = 0

\* pf_ref_loads after a backend call that loaded the given sizes.
CountLoads(loaded) ==
    [size \in DOMAIN pf_ref_loads |->
        pf_ref_loads[size]
            + Cardinality({k \in DOMAIN loaded : loaded[k] = size})]

\* process_folder up to its loop: mkdir, scan, the empty-folder return, and
\* the direct load_model() call, whose exception nothing catches.
PfStart ==
    /\ pf_pc = "start"
    /\ pf_folder' = IF pf_default_output THEN mkdir(pf_folder, "output")
                    ELSE pf_folder
    /\ pf_image_files' = scan_images(pf_folder')
    /\ IF Len(pf_image_files') = 0
       THEN /\ pf_result' = ProcessResult(0, 0, 0)
            /\ pf_pc' = "done"
            /\ UNCHANGED <<wmVars, pf_i, pf_ref_loads, pf_load_calls>>
       ELSE /\ WmLoadModel
            /\ pf_ref_loads' = CountLoads(wm_last_loads')
            /\ pf_load_calls' = pf_load_calls + 1
            /\ pf_pc' = IF LoadModel.raised THEN "crashed" ELSE "loop"
            /\ pf_i' = 1
            /\ UNCHANGED pf_result
    /\ UNCHANGED <<pf_default_output, pf_passed, pf_returns, pf_success,
                   pf_outputs>>

\* output_path = config.output_folder / f"{image_path.stem}.png", as the
\* file name inside the output folder.
OutputName(name) == Stem(name) \o ".png"

\* One iteration of the loop over image_files: output_path, the progress
\* callback, backend.process and the count of its True results.
PfIterate ==
    /\ pf_pc = "loop"
    /\ pf_i <= Len(pf_image_files)
    /\ LET file == pf_image_files[pf_i]
           output_name == OutputName(file.name)
       IN  /\ wm_input' = file.image
           /\ ProcessCall(file.image)
           /\ pf_passed' = Append(pf_passed, file.name)
           /\ pf_returns' = Append(pf_returns, wm_return')
           /\ pf_ref_loads' = CountLoads(wm_last_loads')
           /\ pf_load_calls' = IF wm_model_loaded THEN pf_load_calls
                                ELSE pf_load_calls + 1
           /\ IF wm_return' = "raised"
              THEN /\ pf_pc' = "crashed"
                   /\ UNCHANGED <<pf_i, pf_success, pf_outputs>>
              ELSE /\ pf_i' = pf_i + 1
                   /\ pf_success' = IF wm_return' = "True"
                                     THEN pf_success + 1 ELSE pf_success
                   /\ pf_outputs' = IF wm_return' = "True"
                                     THEN (output_name :> wm_output') @@ pf_outputs
                                     ELSE pf_outputs
                   /\ UNCHANGED pf_pc
    /\ UNCHANGED <<pf_folder, pf_default_output, pf_image_files, pf_result>>

\* The return after the loop.
PfReturn ==
    /\ pf_pc = "loop"
    /\ pf_i > Len(pf_image_files)
    /\ pf_result' = ProcessResult(Len(pf_image_files), pf_success,
                                  Len(pf_image_files) - pf_success)
    /\ pf_pc' = "done"
    /\ UNCHANGED <<wmVars, pf_folder, pf_default_output, pf_image_files, pf_i,
                   pf_passed,
                   pf_returns, pf_success, pf_outputs, pf_ref_loads,
                   pf_load_calls>>

----------------------------------------------------------------------------
(* Construction: GreenScreenBackend.__init__, GeminiWatermarkBackend       *)
(* .__init__ and BackendRegistry.create.                                   *)

\* No instance (the constructor has not run, or it raised).
NoInstance ==
    [backend |-> "none", model |-> "", strength |-> <<0, 1>>,
     despill_strength |-> <<0, 1>>, model_loaded |-> FALSE, resources |-> 0]

\* Variant of GreenScreenBackend: the mode is not checked.
GreenScreenBackend_unchecked(model, strength) ==
    [outcome |-> "instance",
     instance |-> [backend |-> "greenscreen", model |-> model,
                   strength |-> BaseBackendStrength(strength),
                   despill_strength |-> strength,
                   model_loaded |-> FALSE, resources |-> 0]]

\* GreenScreenBackend(model, strength): BaseBackend.__init__, then the
\* mode check, then the fields.  resources counts what is loaded
\* (_gs_processor, _ai_session): nothing.
GreenScreenBackend(model, strength) ==
    IF model \notin GS_AVAILABLE_MODES
    THEN [outcome |-> "ValueError", instance |-> NoInstance]
    ELSE [outcome |-> "instance",
          instance |-> [backend |-> "greenscreen", model |-> model,
                        strength |-> BaseBackendStrength(strength),
                        despill_strength |-> strength,
                        model_loaded |-> FALSE, resources |-> 0]]

\* GeminiWatermarkBackend(model, strength).  resources counts the entries
\* of _alpha_maps: none.
GeminiWatermarkBackend(model, strength) ==
    IF model \notin AVAILABLE_MODES
    THEN [outcome |-> "ValueError", instance |-> NoInstance]
    ELSE [outcome |-> "instance",
          instance |-> [backend |-> "gemini-watermark", model |-> model,
                        strength |-> BaseBackendStrength(strength),
                        despill_strength |-> <<0, 1>>,
                        model_loaded |-> FALSE, resources |-> 0]]

\* AVAILABLE_MODELS of rembg.py.
REMBG_AVAILABLE_MODELS ==
    {"birefnet-general", "birefnet-general-lite", "birefnet-portrait",
     "birefnet-massive", "isnet-general-use", "isnet-anime", "u2net",
     "u2netp", "u2net_human_seg", "silueta"}

\* AVAILABLE_MODELS of backgroundremover.py.
BGR_AVAILABLE_MODELS == {"u2net", "u2net_human_seg", "u2netp"}

\* AVAILABLE_MODES of transparent_bg.py.
TBG_AVAILABLE_MODES == {"base", "fast", "base-nightly"}

\* RembgBackend(model, strength).  resources counts _session: none.
RembgBackend(model, strength) ==
    IF model \notin REMBG_AVAILABLE_MODELS
    THEN [outcome |-> "ValueError", instance |-> NoInstance]
    ELSE [outcome |-> "instance",
          instance |-> [backend |-> "rembg", model |-> model,
                        strength |-> BaseBackendStrength(strength),
                        despill_strength |-> <<0, 1>>,
                        model_loaded |-> FALSE, resources |-> 0]]

\* BackgroundRemoverBackend(model, strength).  resources counts
\* _remove_func: none.
BackgroundRemoverBackend(model, strength) ==
    IF model \notin BGR_AVAILABLE_MODELS
    THEN [outcome |-> "ValueError", instance |-> NoInstance]
    ELSE [outcome |-> "instance",
          instance |-> [backend |-> "backgroundremover", model |-> model,
                        strength |-> BaseBackendStrength(strength),
                        despill_strength |-> <<0, 1>>,
                        model_loaded |-> FALSE, resources |-> 0]]

\* TransparentBgBackend(mode, strength): the mode is kept in the field
\* model of the instance record.  resources counts _remover: none.
TransparentBgBackend(mode, strength) ==
    IF mode \notin TBG_AVAILABLE_MODES
    THEN [outcome |-> "ValueError", instance |-> NoInstance]
    ELSE [outcome |-> "instance",
          instance |-> [backend |-> "transparent-background", model |-> mode,
                        strength |-> BaseBackendStrength(strength),
                        despill_strength |-> <<0, 1>>,
                        model_loaded |-> FALSE, resources |-> 0]]

\* BackendRegistry._backends: the names the register decorators add.
RegisteredBackends ==
    {"greenscreen", "rembg", "transparent-background", "gemini-watermark",
     "backgroundremover"}

\* The class registered under a name, called with model and strength
\* (create passes the model as mode= to transparent-background, whose
\* constructor names its first parameter mode).  A name that is not
\* registered has no class: get raises KeyError.
Constructor(name, model, strength) ==
    CASE name = "greenscreen" -> GreenScreenBackend(model, strength)
      [] name = "gemini-watermark" -> GeminiWatermarkBackend(model, strength)
      [] name = "rembg" -> RembgBackend(model, strength)
      [] name = "backgroundremover" ->
            BackgroundRemoverBackend(model, strength)
      [] name = "transparent-background" ->
            TransparentBgBackend(model, strength)
      [] OTHER -> [outcome |-> "KeyError", instance |-> NoInstance]

\* The model arguments tried: the modes of the green-screen and watermark
\* backends, models and modes of the other backends, and strings that are
\* modes of none.
ModeArgs ==
    GS_AVAILABLE_MODES \cup AVAILABLE_MODES
        \cup {"u2net", "isnet-anime", "base"}
        \cup {"", "Hybrid", "force-48", "chroma", "AUTO"}

CtInit ==
    /\ ct_via \in {"direct", "registry"}
    /\ ct_name \in (IF ct_via = "direct"
                    THEN RegisteredBackends
                    ELSE RegisteredBackends \cup {"no-such-backend"})
    /\ ct_model \in ModeArgs
    /\ ct_requested \in RequestedStrengths
    /\ ct_outcome = "pending"
    /\ ct_instance = NoInstance

\* A backend class called directly: GreenScreenBackend(model=...,
\* strength=...), GeminiWatermarkBackend(model=..., strength=...), ...
CtDirect ==
    /\ ct_via = "direct"
    /\ ct_outcome = "pending"
    /\ LET made == Constructor(ct_name, ct_model, ct_requested)
       IN  /\ ct_outcome' = made.outcome
           /\ ct_instance' = made.instance
    /\ UNCHANGED <<ct_name, ct_via, ct_model, ct_requested>>

\* BackendRegistry.create(name, model, strength): get raises KeyError for
\* a name that is not registered; otherwise the class is called.
CtRegistryCreate ==
    /\ ct_via = "registry"
    /\ ct_outcome = "pending"
    /\ IF ct_name \notin RegisteredBackends
       THEN /\ ct_outcome' = "KeyError"
            /\ ct_instance' = NoInstance
       ELSE LET made == Constructor(ct_name, ct_model, ct_requested)
            IN  /\ ct_outcome' = made.outcome
                /\ ct_instance' = made.instance
    /\ UNCHANGED <<ct_name, ct_via, ct_model, ct_requested>>

----------------------------------------------------------------------------
(* postprocess/green_screen.py: GreenScreenProcessor.refine_mask, with     *)
(* the cv2 operations it calls computed on a small mask.                   *)

\* Side of the largest mask.
GridSide == 7

\* Width and height of the masks: two small ones and the largest.
MaskSizes == {<<5, 5>>, <<6, 4>>, <<GridSide, GridSide>>}

\* The pixel coordinates <<x, y>> of a mask of the given size.
Grid(size) == (1 .. size[1]) \X (1 .. size[2])

\* The integer nearest to the square root of n (n >= 0).
RoundSqrt(n) ==
    CHOOSE k \in 0 .. n + 1 :
        /\ (k = 0 \/ (2 * k - 1) * (2 * k - 1) <= 4 * n)
        /\ 4 * n < (2 * k + 1) * (2 * k + 1)

\* cv2.getStructuringElement(cv2.MORPH_ELLIPSE, (ksize, ksize)): the
\* offsets <<dx, dy>> from the anchor (ksize/2, ksize/2) of its non-zero
\* elements.  Row i holds ones in columns r - dx .. r + dx, with
\* r = ksize/2 and dx = round(sqrt(r*r - (i - r)^2)), cut to the kernel.
getStructuringElement(ksize) ==
    LET r == ksize \div 2
    IN  {<<e[2] - r, e[1] - r>> :
            e \in {ij \in (0 .. ksize - 1) \X (0 .. ksize - 1) :
                     LET dx == RoundSqrt(r * r - (ij[1] - r) * (ij[1] - r))
                     IN  ij[2] >= r - dx /\ ij[2] <= r + dx}}

SetMax(S) == CHOOSE v \in S : \A w \in S : w <= v

SetMin(S) == CHOOSE v \in S : \A w \in S : v <= w

\* mask.shape: width and height of a mask.
Width(mask) == SetMax({p[1] : p \in DOMAIN mask})

Height(mask) == SetMax({p[2] : p \in DOMAIN mask})

\* The pixels of the mask under the kernel placed at p; pixels outside the
\* mask take no part (the default border value of cv2's morphology).
Under(mask, kernel, p) ==
    {mask[<<p[1] + o[1], p[2] + o[2]>>] :
        o \in {k \in kernel : <<p[1] + k[1], p[2] + k[2]>> \in DOMAIN mask}}

\* cv2.dilate and cv2.erode, one iteration.
Dilate(mask, kernel) == [p \in DOMAIN mask |-> SetMax(Under(mask, kernel, p))]

Erode(mask, kernel) == [p \in DOMAIN mask |-> SetMin(Under(mask, kernel, p))]

\* cv2.morphologyEx(mask, cv2.MORPH_CLOSE, kernel): dilate, then erode.
MorphClose(mask, kernel) == Erode(Dilate(mask, kernel), kernel)

\* cv2.morphologyEx(mask, cv2.MORPH_OPEN, kernel): erode, then dilate.
MorphOpen(mask, kernel) == Dilate(Erode(mask, kernel), kernel)

\* The Gaussian kernel cv2 uses for sigma 0 and sizes up to 7, in 1/256.
GaussianTaps(ksize) ==
    CASE ksize = 1 -> <<256>>
      [] ksize = 3 -> <<64, 128, 64>>
      [] ksize = 5 -> <<16, 64, 96, 64, 16>>
      [] OTHER -> <<8, 28, 56, 72, 56, 28, 8>>

\* BORDER_REFLECT_101 (cv2's default border) of an index into 1 .. n.
RECURSIVE Reflect101(_, _)
Reflect101(i, n) ==
    IF n = 1 THEN 1
    ELSE IF i < 1 THEN Reflect101(2 - i, n)
    ELSE IF i > n THEN Reflect101(2 * n - i, n)
    ELSE i

RECURSIVE SumTo(_, _)
SumTo(f, n) == IF n = 0 THEN 0 ELSE f[n] + SumTo(f, n - 1)

\* cv2.GaussianBlur(mask, (ksize, ksize), 0) of an 8-bit mask: the row
\* pass and the column pass in fixed point, rounded to nearest at the end.
GaussianBlur(mask, ksize) ==
    LET taps == GaussianTaps(ksize)
        rad == ksize \div 2
        w == Width(mask)
        h == Height(mask)
        rows == [p \in DOMAIN mask |->
                    SumTo([k \in 1 .. ksize |->
                             taps[k] * mask[<<Reflect101(p[1] + k - 1 - rad, w),
                                              p[2]>>]],
                          ksize)]
    IN  [p \in DOMAIN mask |->
            (SumTo([k \in 1 .. ksize |->
                      taps[k] * rows[<<p[1], Reflect101(p[2] + k - 1 - rad, h)>>]],
                   ksize) + 32768) \div 65536]

\* Kernels of the closing and of the opening.
kernel_close == getStructuringElement(5)

\* Variant of kernel_open: a single element.
kernel_open_unit == getStructuringElement(1)

kernel_open == getStructuringElement(3)

\* Variant of StageOrder: the blur comes before the erosion.
StageOrder_blurfirst == <<"close", "open", "blur", "erode">>

\* The statements of refine_mask, in the order it runs them.
StageOrder == <<"close", "open", "erode", "blur">>

\* The statement after the one at position pc, "return" after the last.
NextStage(pc) ==
    LET k == CHOOSE n \in DOMAIN StageOrder : StageOrder[n] = pc
    IN  IF k = Len(StageOrder) THEN "return" ELSE StageOrder[k + 1]

\* GreenScreenProcessor.refine_mask(mask) under the given config, as one
\* function: the result of the four statements run in order.
refine_mask(mask, config) ==
    LET closed == MorphClose(mask, kernel_close)
        opened == MorphOpen(closed, kernel_open)
        eroded == IF config.erode_size > 0
                  THEN Erode(opened, getStructuringElement(config.erode_size))
                  ELSE opened
    IN  IF config.edge_blur > 0
        THEN GaussianBlur(eroded, config.edge_blur * 2 + 1)
        ELSE eroded

\* Masks: all background, all foreground, one pixel of either kind alone
\* among the other, and a left part or a right part of the columns.
MaskChoices(size) ==
    {[p \in Grid(size) |-> 0], [p \in Grid(size) |-> 255]}
        \cup {[p \in Grid(size) |-> IF p = q THEN 255 ELSE 0] : q \in Grid(size)}
        \cup {[p \in Grid(size) |-> IF p = q THEN 0 ELSE 255] : q \in Grid(size)}
        \cup {[p \in Grid(size) |-> IF p[1] <= c THEN 255 ELSE 0] :
                  c \in 1 .. size[1] - 1}
        \cup {[p \in Grid(size) |-> IF p[1] > c THEN 255 ELSE 0] :
                  c \in 1 .. size[1] - 1}

\* GreenScreenConfig values tried for the three softness options.
RefineConfigs ==
    [edge_blur : {0, 1, 3}, erode_size : {0, 2}, feather_amount : {0, 2}]

RfInit ==
    /\ rf_config \in RefineConfigs
    /\ \E size \in MaskSizes : rf_raw \in MaskChoices(size)
    /\ rf_mask = rf_raw
    /\ rf_trace = <<>>
    /\ rf_pc = StageOrder[1]

\* kernel_close = ...; mask = cv2.morphologyEx(mask, cv2.MORPH_CLOSE, ...)
RfClose ==
    /\ rf_pc = "close"
    /\ rf_mask' = MorphClose(rf_mask, kernel_close)
    /\ rf_trace' = Append(rf_trace, [op |-> "close", ksize |-> 5])
    /\ rf_pc' = NextStage(rf_pc)
    /\ UNCHANGED <<rf_config, rf_raw>>

\* kernel_open = ...; mask = cv2.morphologyEx(mask, cv2.MORPH_OPEN, ...)
RfOpen ==
    /\ rf_pc = "open"
    /\ rf_mask' = MorphOpen(rf_mask, kernel_open)
    /\ rf_trace' = Append(rf_trace, [op |-> "open", ksize |-> 3])
    /\ rf_pc' = NextStage(rf_pc)
    /\ UNCHANGED <<rf_config, rf_raw>>

\* if self.config.erode_size > 0: mask = cv2.erode(mask, kernel_erode)
RfErode ==
    /\ rf_pc = "erode"
    /\ IF rf_config.erode_size > 0
       THEN /\ rf_mask' = Erode(rf_mask, getStructuringElement(rf_config.erode_size))
            /\ rf_trace' = Append(rf_trace, [op |-> "erode",
                                             ksize |-> rf_config.erode_size])
       ELSE UNCHANGED <<rf_mask, rf_trace>>
    /\ rf_pc' = NextStage(rf_pc)
    /\ UNCHANGED <<rf_config, rf_raw>>

\* if self.config.edge_blur > 0: mask = cv2.GaussianBlur(mask, ...)
RfBlur ==
    /\ rf_pc = "blur"
    /\ IF rf_config.edge_blur > 0
       THEN /\ rf_mask' = GaussianBlur(rf_mask, rf_config.edge_blur * 2 + 1)
            /\ rf_trace' = Append(rf_trace, [op |-> "blur",
                                             ksize |-> rf_config.edge_blur * 2 + 1])
       ELSE UNCHANGED <<rf_mask, rf_trace>>
    /\ rf_pc' = NextStage(rf_pc)
    /\ UNCHANGED <<rf_config, rf_raw>>

----------------------------------------------------------------------------
(* ProcessConfig: the frozen dataclass and its __post_init__.              *)

\* Paths are the sequences of their components; path / 'name' appends one.
PathJoin(path, name) == Append(path, name)

\* Folders tried as input_folder and as output_folder.
FolderPaths ==
    {<<>>, <<"photos">>, <<"photos", "output">>, <<"home", "user", "pics">>}

\* An optional Path: None, or the given path.
None == [given |-> FALSE, path |-> <<>>]

Some(path) == [given |-> TRUE, path |-> path]

\* The state of no ProcessConfig object.
NoProcessConfig ==
    [input_folder |-> <<>>, backend_name |-> "", model |-> "",
     strength |-> <<0, 1>>, output_folder |-> None]

\* Variant of __post_init__: the default folder replaces whatever was given.
ProcessConfig_post_init_always(self) ==
    [self EXCEPT !.output_folder = Some(PathJoin(self.input_folder, "output"))]

\* ProcessConfig.__post_init__(self)
ProcessConfig_post_init(self) ==
    IF self.output_folder = None
    THEN [self EXCEPT
             !.output_folder = Some(PathJoin(self.input_folder, "output"))]
    ELSE self

\* ProcessConfig(input_folder, backend_name, model, strength, output_folder):
\* the generated __init__ stores the fields, then __post_init__ runs.
ProcessConfig(args) ==
    ProcessConfig_post_init(
        [input_folder |-> args.input_folder,
         backend_name |-> args.backend_name,
         model |-> args.model, strength |-> args.strength,
         output_folder |-> args.output_folder])

CfInit ==
    /\ cf_args \in [input_folder : FolderPaths,
                     backend_name : {"rembg", "greenscreen"},
                     model : {"u2net", "hybrid"},
                     strength : RequestedStrengths,
                     output_folder : {None} \cup {Some(p) : p \in FolderPaths}]
    /\ cf_config = NoProcessConfig
    /\ cf_pc = "args"

\* The construction ProcessConfig(...) with the arguments cf_args.
CfConstruct ==
    /\ cf_pc = "args"
    /\ cf_config' = ProcessConfig(cf_args)
    /\ cf_pc' = "built"
    /\ UNCHANGED cf_args

----------------------------------------------------------------------------
(* PathHistory: the history file, load and save.                           *)

_MAX_ENTRIES == 10

\* Largest number of save calls in one run.
MaxSaves == 3

\* The directories that exist, as resolved (absolute) paths.
ExistingDirs ==
    {"/w/d01", "/w/d02", "/w/d03", "/w/d04", "/w/d05", "/w/d06", "/w/d07",
     "/w/d08", "/w/d09", "/w/d10", "/w/d11", "/w/d12"}

\* Paths given to save that are relative to the working directory /w.
RelativePaths == {"d11", "d02"}

\* The paths given to save: resolved ones, relative ones, and one that is
\* not a directory.
SavePaths == {"/w/d01", "/w/d10", "/w/d11", "/w/d12", "/w/gone"}
                 \cup RelativePaths

\* Path.resolve(): a relative path becomes absolute.
Resolve(path) == IF path \in RelativePaths THEN "/w/" \o path ELSE path

\* Path.is_dir()
IsDir(path) == Resolve(path) \in ExistingDirs

\* The history a run of earlier save calls (d10, d09, ..., d01) left.
EarlierHistory ==
    <<"/w/d01", "/w/d02", "/w/d03", "/w/d04", "/w/d05", "/w/d06", "/w/d07",
      "/w/d08", "/w/d09", "/w/d10">>

\* The history file before the first save call of the run: absent, not a
\* readable JSON list, or the list earlier save calls wrote.
HistoryFiles ==
    {[kind |-> "absent", entries |-> <<>>],
     [kind |-> "invalid", entries |-> <<>>]}
        \cup {[kind |-> "list", entries |-> SubSeq(EarlierHistory, 1, k)] :
                  k \in {1, _MAX_ENTRIES - 1, _MAX_ENTRIES}}

\* PathHistory.load(): the entries of the file that are directories.
load(file) ==
    IF file.kind # "list" THEN <<>>
    ELSE SelectSeq(file.entries, IsDir)

\* Variant of save: the saved path is not removed from the loaded entries.
save_keep_duplicates(file, path) ==
    LET resolved == Resolve(path)
        entries == <<resolved>> \o load(file)
    IN  [kind |-> "list",
         entries |-> SubSeq(entries, 1, Min2(Len(entries), _MAX_ENTRIES))]

\* PathHistory.save(path): the file it writes.
save(file, path) ==
    LET resolved == Resolve(path)
        existing == load(file)
        entries == <<resolved>>
                       \o SelectSeq(existing, LAMBDA q : Resolve(q) # resolved)
    IN  [kind |-> "list",
         entries |-> SubSeq(entries, 1, Min2(Len(entries), _MAX_ENTRIES))]

HsInit ==
    /\ hs_file \in HistoryFiles
    /\ hs_last = ""
    /\ hs_saves = 0

\* A call save(path).
HsSave ==
    /\ hs_saves < MaxSaves
    /\ \E path \in SavePaths :
          /\ hs_file' = save(hs_file, path)
          /\ hs_last' = path
    /\ hs_saves' = hs_saves + 1

----------------------------------------------------------------------------
(* main and the wizard InteractiveUI.run it calls.                         *)

\* Largest number of times the folder path is asked for in one run.
MaxPrompts == 3

\* main has not returned.
NoExit == -1

\* The parameters of Console.get_choice(prompt, options, default).
GetChoiceParameters == {"prompt", "options", "default"}

\* The keyword arguments of the get_choice call of _select_from_history.
HistoryChoiceKeywords == {"default", "allow_back"}

\* The keyword arguments of the get_choice call of _select_backend.
BackendChoiceKeywords == {"default", "allow_back"}

\* A call with a keyword argument that is no parameter of the function
\* raises TypeError before the body runs.
CallRaises(keywords) == ~(keywords \subseteq GetChoiceParameters)

\* What exists under the paths the user can type, besides ExistingDirs.
ExistingFiles == {"/w/file.png"}

\* The directories holding at least one supported image.
DirsWithImages == {"/w/d01", "/w/d11"}

\* What the user can type at the folder prompt.
FolderAnswers ==
    {"b", "BACK", "", "/w/d01", "d11", "/w/d02", "/w/gone", "/w/file.png"}

\* str.lower() of an answer.
AnswerLower(answer) == IF answer = "BACK" THEN "back" ELSE answer

\* _validate_folder(folder): the message written, "found" when it passes.
_validate_folder(folder) ==
    IF folder \notin ExistingDirs \cup ExistingFiles THEN "not_exists"
    ELSE IF folder \notin ExistingDirs THEN "not_dir"
    ELSE IF folder \notin DirsWithImages THEN "no_images"
    ELSE "found"

\* return 0 if last_result_success else 1
ExitCode(last_result_success) == IF last_result_success THEN 0 ELSE 1

MnInit ==
    /\ hs_file \in HistoryFiles
    /\ hs_last = ""
    /\ hs_saves = 0
    /\ mn_pc = "start"
    /\ mn_folder = None
    /\ mn_last_result_success = TRUE
    /\ mn_output = <<>>
    /\ mn_prompts = 0
    /\ mn_cancelled = FALSE
    /\ mn_exception = "none"
    /\ mn_exit = NoExit

\* An exception leaves the try block of main: exit code 1.
MnRaise(exception, output) ==
    /\ mn_exception' = exception
    /\ mn_output' = output \o <<"error">>
    /\ mn_exit' = 1
    /\ mn_pc' = "exited"

\* main up to the first prompt: InteractiveUI(), run, _show_welcome and
\* _select_folder, which asks for a path when the history is empty and
\* calls get_choice through _select_from_history otherwise.
MnStart ==
    /\ mn_pc = "start"
    /\ LET output == mn_output \o <<"welcome", "step1">>
       IN  IF load(hs_file) = <<>>
           THEN /\ mn_pc' = "folder_input"
                /\ mn_output' = output
                /\ UNCHANGED <<mn_exception, mn_exit>>
           ELSE IF CallRaises(HistoryChoiceKeywords)
           THEN MnRaise("TypeError", output)
           ELSE /\ mn_pc' = "history_choice"
                /\ mn_output' = output
                /\ UNCHANGED <<mn_exception, mn_exit>>
    /\ UNCHANGED <<hsVars, mn_folder, mn_last_result_success, mn_prompts,
                   mn_cancelled>>

\* The user answers the folder prompt of _input_new_folder.  'b' cancels:
\* run returns None and main leaves its loop.  A folder that passes
\* _validate_folder is saved to the history and run goes on to
\* _select_backend, which calls get_choice.
MnFolderInput ==
    /\ mn_pc = "folder_input"
    /\ mn_prompts < MaxPrompts
    /\ mn_prompts' = mn_prompts + 1
    /\ \E answer \in FolderAnswers :
          IF AnswerLower(answer) \in {"b", "back"}
          THEN /\ mn_cancelled' = TRUE
               /\ mn_output' = mn_output \o <<"cancelled">>
               /\ mn_exit' = ExitCode(mn_last_result_success)
               /\ mn_pc' = "exited"
               /\ UNCHANGED <<hsVars, mn_folder, mn_exception>>
          ELSE IF answer = ""
          THEN /\ mn_output' = mn_output \o <<"empty">>
               /\ UNCHANGED <<hsVars, mn_pc, mn_folder, mn_cancelled,
                              mn_exception, mn_exit>>
          ELSE IF _validate_folder(Resolve(answer)) # "found"
          THEN /\ mn_output' = mn_output
                                 \o <<_validate_folder(Resolve(answer))>>
               /\ UNCHANGED <<hsVars, mn_pc, mn_folder, mn_cancelled,
                              mn_exception, mn_exit>>
          ELSE /\ hs_file' = save(hs_file, Resolve(answer))
               /\ hs_last' = Resolve(answer)
               /\ hs_saves' = hs_saves + 1
               /\ mn_folder' = Some(Resolve(answer))
               /\ mn_cancelled' = FALSE
               /\ IF CallRaises(BackendChoiceKeywords)
                  THEN MnRaise("TypeError", mn_output \o <<"found", "step2">>)
                  ELSE /\ mn_pc' = "backend_choice"
                       /\ mn_output' = mn_output \o <<"found", "step2">>
                       /\ UNCHANGED <<mn_exception, mn_exit>>
    /\ UNCHANGED mn_last_result_success

\* The user presses Ctrl-C at the folder prompt: KeyboardInterrupt.
MnInterrupt ==
    /\ mn_pc = "folder_input"
    /\ mn_exception' = "KeyboardInterrupt"
    /\ mn_output' = mn_output \o <<"cancelled">>
    /\ mn_exit' = 1
    /\ mn_pc' = "exited"
    /\ UNCHANGED <<hsVars, mn_folder, mn_last_result_success, mn_prompts,
                   mn_cancelled>>

----------------------------------------------------------------------------
(* Specifications.  Each one runs one part of the program; the variables   *)
(* of the other parts stay at their idle values.                           *)

RmIdle ==
    /\ rm_image = NoImage /\ rm_before = NoImage
    /\ rm_params = [alpha_map |-> <<>>, x |-> 0, y |-> 0, size |-> 0,
                    strength |-> <<0, 1>>]
    /\ rm_pc = "idle"

WmIdle ==
    /\ wm_model = "auto" /\ wm_requested = <<1, 1>> /\ wm_strength = <<1, 1>>
    /\ wm_model_loaded = FALSE
    /\ wm_alpha_maps = <<>> /\ wm_assets = <<>> /\ wm_input = NoImage
    /\ wm_config = NoConfig /\ wm_output = NoImage /\ wm_return = "none"
    /\ wm_last_loads = <<>> /\ wm_last_params = NoParams

GsIdle ==
    /\ gs_mode = "hybrid" /\ gs_strength = <<1, 1>>
    /\ gs_config = [despill_strength |-> <<1, 1>>, edge_blur |-> 3,
                    erode_size |-> 2, feather_amount |-> 2]
    /\ gs_model_loaded = FALSE /\ gs_processor = FALSE /\ gs_ai_session = FALSE
    /\ gs_world = <<>> /\ gs_ai_fails = FALSE /\ gs_session_fails = FALSE
    /\ gs_sessions = 0 /\ gs_ai_calls = 0 /\ gs_calls = 0
    /\ gs_chroma = <<>> /\ gs_output = <<>> /\ gs_return = "none"

DsIdle ==
    /\ ds_image = <<>> /\ ds_strength = <<0, 1>>
    /\ ds_out_proc = <<>> /\ ds_out_back = <<>>
    /\ ds_twin = <<>> /\ ds_out_twin = <<>>

PfIdle ==
    /\ pf_folder = {} /\ pf_default_output = FALSE
    /\ pf_pc = "idle" /\ pf_image_files = <<>> /\ pf_i = 0
    /\ pf_passed = <<>> /\ pf_returns = <<>> /\ pf_success = 0
    /\ pf_result = NoResult /\ pf_outputs = <<>> /\ pf_ref_loads = <<>>
    /\ pf_load_calls = 0

CtIdle ==
    /\ ct_name = "none" /\ ct_via = "none" /\ ct_model = ""
    /\ ct_requested = <<0, 1>> /\ ct_outcome = "idle" /\ ct_instance = NoInstance

RfIdle ==
    /\ rf_config = [edge_blur |-> 0, erode_size |-> 0, feather_amount |-> 0]
    /\ rf_raw = <<>> /\ rf_mask = <<>> /\ rf_trace = <<>> /\ rf_pc = "idle"

CfIdle ==
    /\ cf_args = NoProcessConfig /\ cf_config = NoProcessConfig
    /\ cf_pc = "idle"

HsIdle ==
    /\ hs_file = [kind |-> "absent", entries |-> <<>>]
    /\ hs_last = "" /\ hs_saves = 0

MnIdle ==
    /\ mn_pc = "idle" /\ mn_folder = None /\ mn_last_result_success = TRUE
    /\ mn_output = <<>> /\ mn_prompts = 0 /\ mn_cancelled = FALSE
    /\ mn_exception = "none" /\ mn_exit = NoExit

UiIdle == CfIdle /\ HsIdle /\ MnIdle

CoreIdle ==
    RmIdle /\ WmIdle /\ GsIdle /\ DsIdle /\ PfIdle /\ CtIdle /\ RfIdle

\* Direct calls of _remove_watermark.
InitRemove == RmInit /\ WmIdle /\ GsIdle /\ DsIdle /\ PfIdle
    /\ CtIdle /\ RfIdle
    /\ UiIdle

NextRemove ==
    RemoveWatermarkCall /\ UNCHANGED <<wmVars, gsVars, dsVars, pfVars, ctVars, rfVars, uiVars>>

SpecRemove == InitRemove /\ [][NextRemove]_vars

\* The watermark backend.
InitWatermark == WmInit /\ RmIdle /\ GsIdle /\ DsIdle /\ PfIdle
    /\ CtIdle /\ RfIdle
    /\ UiIdle

NextWatermark ==
    \/ WmLoadModel /\ UNCHANGED <<rmVars, gsVars, dsVars, pfVars, ctVars, rfVars, uiVars>>
    \/ WmProcess /\ UNCHANGED <<rmVars, gsVars, dsVars, pfVars, ctVars, rfVars, uiVars>>
    \/ WmEnsureModelLoaded
          /\ UNCHANGED <<rmVars, gsVars, dsVars, pfVars, ctVars, rfVars, uiVars>>
    \/ WmProcessSingle
          /\ UNCHANGED <<rmVars, gsVars, dsVars, pfVars, ctVars, rfVars, uiVars>>

SpecWatermark == InitWatermark /\ [][NextWatermark]_vars

\* The green-screen backend.
InitGreen == GsInit /\ RmIdle /\ WmIdle /\ DsIdle /\ PfIdle
    /\ CtIdle /\ RfIdle
    /\ UiIdle

NextGreen ==
    \/ GsLoadModel /\ UNCHANGED <<rmVars, wmVars, dsVars, pfVars, ctVars, rfVars, uiVars>>
    \/ GsEnsureModelLoaded /\ UNCHANGED <<rmVars, wmVars, dsVars, pfVars, ctVars, rfVars, uiVars>>
    \/ GsProcess /\ UNCHANGED <<rmVars, wmVars, dsVars, pfVars, ctVars, rfVars, uiVars>>

SpecGreen == InitGreen /\ [][NextGreen]_vars

\* Direct calls of the despill stages.
InitDespill == DsInit /\ RmIdle /\ WmIdle /\ GsIdle /\ PfIdle
    /\ CtIdle /\ RfIdle
    /\ UiIdle

NextDespill ==
    \/ DespillGreenCall /\ UNCHANGED <<rmVars, wmVars, gsVars, pfVars, ctVars, rfVars, uiVars>>
    \/ ApplyDespillCall /\ UNCHANGED <<rmVars, wmVars, gsVars, pfVars, ctVars, rfVars, uiVars>>
    \/ ApplyDespillTwinCall
          /\ UNCHANGED <<rmVars, wmVars, gsVars, pfVars, ctVars, rfVars, uiVars>>

SpecDespill == InitDespill /\ [][NextDespill]_vars

\* A process_folder batch over the watermark backend.
InitFolder == PfInit /\ RmIdle /\ GsIdle /\ DsIdle
    /\ CtIdle /\ RfIdle
    /\ UiIdle

NextFolder ==
    \/ PfStart /\ UNCHANGED <<rmVars, gsVars, dsVars, ctVars, rfVars, uiVars>>
    \/ PfIterate /\ UNCHANGED <<rmVars, gsVars, dsVars, ctVars, rfVars, uiVars>>
    \/ PfReturn /\ UNCHANGED <<rmVars, gsVars, dsVars, ctVars, rfVars, uiVars>>

SpecFolder == InitFolder /\ [][NextFolder]_vars

\* Construction of a backend, directly or through the registry.
InitConstruct == CtInit /\ RmIdle /\ WmIdle /\ GsIdle /\ DsIdle /\ PfIdle
    /\ RfIdle
    /\ UiIdle

NextConstruct ==
    \/ CtDirect /\ UNCHANGED <<rmVars, wmVars, gsVars, dsVars, pfVars, rfVars, uiVars>>
    \/ CtRegistryCreate
          /\ UNCHANGED <<rmVars, wmVars, gsVars, dsVars, pfVars, rfVars, uiVars>>

SpecConstruct == InitConstruct /\ [][NextConstruct]_vars

\* One run of refine_mask.
InitRefine == RfInit /\ RmIdle /\ WmIdle /\ GsIdle /\ DsIdle /\ PfIdle
    /\ CtIdle
    /\ UiIdle

NextRefine ==
    \/ RfClose /\ UNCHANGED <<rmVars, wmVars, gsVars, dsVars, pfVars, ctVars, uiVars>>
    \/ RfOpen /\ UNCHANGED <<rmVars, wmVars, gsVars, dsVars, pfVars, ctVars, uiVars>>
    \/ RfErode /\ UNCHANGED <<rmVars, wmVars, gsVars, dsVars, pfVars, ctVars, uiVars>>
    \/ RfBlur /\ UNCHANGED <<rmVars, wmVars, gsVars, dsVars, pfVars, ctVars, uiVars>>

SpecRefine == InitRefine /\ [][NextRefine]_vars

----------------------------------------------------------------------------

\* Construction of a ProcessConfig.
InitConfig == CfInit /\ CoreIdle /\ HsIdle /\ MnIdle

NextConfig == CfConstruct /\ UNCHANGED <<coreVars, hsVars, mnVars>>

SpecConfig == InitConfig /\ [][NextConfig]_vars

\* Save calls on a PathHistory.
InitHistory == HsInit /\ CoreIdle /\ CfIdle /\ MnIdle

NextHistory == HsSave /\ UNCHANGED <<coreVars, cfVars, mnVars>>

SpecHistory == InitHistory /\ [][NextHistory]_vars

\* One run of main.
InitMain == MnInit /\ CoreIdle /\ CfIdle

NextMain ==
    \/ MnStart /\ UNCHANGED <<coreVars, cfVars>>
    \/ MnFolderInput /\ UNCHANGED <<coreVars, cfVars>>
    \/ MnInterrupt /\ UNCHANGED <<coreVars, cfVars>>

SpecMain == InitMain /\ [][NextMain]_vars

----------------------------------------------------------------------------
(* Properties.                                                             *)

\* The positions <<row, col>> of the size x size region of rm_params.
RegionCells == (0 .. rm_params.size - 1) \X (0 .. rm_params.size - 1)

CellAlpha(rc) == rm_params.alpha_map[rc[1] * rm_params.size + rc[2]]

CellCoord(rc) == <<rm_params.x + rc[2], rm_params.y + rc[1]>>

\* C1: after _remove_watermark, every pixel (x+col, y+row) of the region
\* whose alpha-map value is below 0.002 is the same tuple as before the
\* call, for every strength and for RGB and RGBA images.
C1_LowAlphaUntouched ==
    rm_pc = "done" =>
        \A rc \in RegionCells :
            CellAlpha(rc)[1] * 1000 < 2 * CellAlpha(rc)[2] =>
                rm_image.px[CellCoord(rc)] = rm_before.px[CellCoord(rc)]

\* Case of C1: a full-strength call on an RGBA image that changed the image
\* and whose region holds a non-zero alpha value below 0.002.
C1_Witness ==
    /\ rm_pc = "done"
    /\ rm_image.mode = "RGBA"
    /\ rm_params.strength = <<1, 1>>
    /\ rm_image # rm_before
    /\ \E rc \in RegionCells :
          /\ CellAlpha(rc) = <<199, 100000>>
          /\ rm_before.px[CellCoord(rc)][1] = 1

\* C2: with strength = 0, _remove_watermark leaves every channel of every
\* pixel of the region (indeed of the image) unchanged.
C2_StrengthZeroIdentity ==
    (rm_pc = "done" /\ rm_params.strength[1] = 0) =>
        /\ rm_image = rm_before
        /\ \A rc \in RegionCells :
              rm_image.px[CellCoord(rc)] = rm_before.px[CellCoord(rc)]

\* Case of C2: a strength-0 call on an RGBA image whose region holds alpha
\* values that are not skipped, one of them above the cap.
C2_Witness ==
    /\ rm_pc = "done"
    /\ rm_params.strength[1] = 0
    /\ rm_image.mode = "RGBA"
    /\ rm_params.size = 2
    /\ \E rc \in RegionCells : CellAlpha(rc) = <<1, 2>>
    /\ \E rc \in RegionCells : CellAlpha(rc) = <<1, 1>>

\* (watermarked - a*255) / (1 - a) for the alpha value a capped at 0.99,
\* rounded to a nearest integer and clamped to [0, 255]: is v such a value?
IsRecovered(v, watermarked, a) ==
    LET capped == IF a[1] * 100 > 99 * a[2] THEN <<99, 100>> ELSE a
        num == watermarked * capped[2] - 255 * capped[1]
        den == capped[2] - capped[1]
    IN  \E n \in (num \div den) .. (num \div den) + 1 :
           /\ 2 * Abs(n * den - num) <= den
           /\ v = (IF n < 0 THEN 0 ELSE IF n > 255 THEN 255 ELSE n)

\* C3 as stated: with strength = 1, for every alpha-map value (values above
\* 0.99 counting as 0.99) and every channel value, the channel written is
\* (watermarked - wm_alpha*255)/(1 - wm_alpha) rounded and clamped.
C3_AsStated ==
    (rm_pc = "done" /\ rm_params.strength = <<1, 1>>) =>
        \A rc \in RegionCells :
            \A c \in DOMAIN rm_image.px[CellCoord(rc)] :
                IsRecovered(rm_image.px[CellCoord(rc)][c],
                            rm_before.px[CellCoord(rc)][c], CellAlpha(rc))

\* C3 amended: the same for alpha-map values of at least 0.002 (values
\* above 0.99 counting as 0.99); smaller values leave the pixel as it is.
C3_RecoveredFromThreshold ==
    (rm_pc = "done" /\ rm_params.strength = <<1, 1>>) =>
        \A rc \in RegionCells :
            CellAlpha(rc)[1] * 1000 >= 2 * CellAlpha(rc)[2] =>
                \A c \in DOMAIN rm_image.px[CellCoord(rc)] :
                    IsRecovered(rm_image.px[CellCoord(rc)][c],
                                rm_before.px[CellCoord(rc)][c], CellAlpha(rc))

\* Case of C3: a full-strength call whose region holds an alpha value above
\* 0.99 on a pixel with red 253 (recovered as 55) and an alpha value in
\* [0.002, 0.99] on a pixel that changed.
C3_Witness ==
    /\ rm_pc = "done"
    /\ rm_params.strength = <<1, 1>>
    /\ \E rc \in RegionCells :
          /\ CellAlpha(rc) = <<253, 255>>
          /\ rm_before.px[CellCoord(rc)][1] = 253
          /\ rm_image.px[CellCoord(rc)][1] = 55
    /\ \E rc \in RegionCells :
          /\ CellAlpha(rc) = <<67, 255>>
          /\ rm_image.px[CellCoord(rc)] # rm_before.px[CellCoord(rc)]

\* C4: the geometry process chooses is {96, 64, 64} in auto mode exactly when
\* width > 1024 and height > 1024 and {48, 32, 32} otherwise; in the 48px
\* and 96px modes it is fixed whatever the image size.
C4_GeometrySelection ==
    wm_config # NoConfig =>
        LET big == [logo_size |-> 96, margin_right |-> 64, margin_bottom |-> 64]
            small == [logo_size |-> 48, margin_right |-> 32, margin_bottom |-> 32]
        IN  /\ wm_model = "auto" =>
                  /\ (wm_input.width > 1024 /\ wm_input.height > 1024)
                        => wm_config = big
                  /\ ~(wm_input.width > 1024 /\ wm_input.height > 1024)
                        => wm_config = small
            /\ wm_model = "48px" => wm_config = small
            /\ wm_model = "96px" => wm_config = big

\* Case of C4: auto mode processed a 2000 x 800 image with the 48px geometry.
C4_Witness ==
    /\ wm_model = "auto"
    /\ wm_return = "True"
    /\ wm_input.width = 2000 /\ wm_input.height = 800
    /\ wm_config.logo_size = 48 /\ wm_config.margin_right = 32
    /\ wm_output # NoImage

\* C5: once process has been called on a (decodable) image whose width or
\* height is below logo_size + max(margin_right, margin_bottom) of the
\* geometry of its mode, it has returned True and the output is the input
\* image, pixel for pixel.
C5_TooSmallPassThrough ==
    LET size == IF wm_model = "96px" \/ (/\ wm_model = "auto"
                                         /\ wm_input.width > 1024
                                         /\ wm_input.height > 1024)
                THEN 96 ELSE 48
        margin == IF size = 96 THEN 64 ELSE 32
    IN  (/\ wm_return # "none"
         /\ wm_input.mode # "corrupt"
         /\ (wm_input.width < size + margin \/ wm_input.height < size + margin))
            => (wm_return = "True" /\ wm_output = wm_input)

\* G - max(G - (R+B)/2, 0) * strength, clamped to [0, 255], as the byte the
\* uint8 cast keeps: is v that value for the pixel <<r, g, b, ...>>?
IsDespilledG(v, p, strength) ==
    LET excess2 == IF 2 * p[2] - (p[1] + p[3]) > 0
                   THEN 2 * p[2] - (p[1] + p[3]) ELSE 0
        num == 2 * strength[2] * p[2] - excess2 * strength[1]
        den == 2 * strength[2]
        c == IF num < 0 THEN 0 ELSE IF num > 255 * den THEN 255 * den ELSE num
    IN  v * den <= c /\ c < (v + 1) * den

\* C6: both despill stages give, for every pixel, new G = G - max(G -
\* (R+B)/2, 0) * strength clamped to [0, 255], leave R and B as they are,
\* and leave pixels with G <= (R+B)/2 unchanged.
C6_DespillFormula ==
    /\ ds_out_proc # <<>> =>
          \A i \in DOMAIN ds_image :
              /\ ds_out_proc[i][1] = ds_image[i][1]
              /\ ds_out_proc[i][3] = ds_image[i][3]
              /\ IsDespilledG(ds_out_proc[i][2], ds_image[i], ds_strength)
    /\ ds_out_back # <<>> =>
          \A i \in DOMAIN ds_image :
              /\ ds_out_back[i][1] = ds_image[i][1]
              /\ ds_out_back[i][3] = ds_image[i][3]
              /\ ds_out_back[i][4] = ds_image[i][4]
              /\ IsDespilledG(ds_out_back[i][2], ds_image[i], ds_strength)
              /\ 2 * ds_image[i][2] <= ds_image[i][1] + ds_image[i][3]
                    => ds_out_back[i] = ds_image[i]

\* C7: in ai-enhanced and hybrid mode the alpha written for every pixel is
\* the minimum of the chroma-key alpha (255 - green mask) and the AI alpha.
C7_MergedAlphaIsMin ==
    (gs_return = "True" /\ gs_mode \in {"ai-enhanced", "hybrid"}) =>
        \A i \in DOMAIN gs_world :
            LET a_chroma == 255 - gs_world[i].mask
                a_ai == gs_world[i].ai[4]
            IN  /\ gs_chroma[i][4] = a_chroma
                /\ gs_output[i][4] = (IF a_chroma <= a_ai THEN a_chroma ELSE a_ai)
                /\ gs_output[i][4] <= a_chroma
                /\ gs_output[i][4] <= a_ai

\* Case of C7: a hybrid run over a pixel with chroma alpha 200 and AI alpha
\* 150 wrote alpha 150, and over a pixel where the chroma alpha is smaller.
C7_Witness ==
    /\ gs_return = "True"
    /\ gs_mode = "hybrid"
    /\ \E i \in DOMAIN gs_world :
          /\ gs_world[i].mask = 55 /\ gs_world[i].ai[4] = 150
          /\ gs_output[i][4] = 150
    /\ \E i \in DOMAIN gs_world :
          /\ gs_world[i].mask = 255 /\ gs_world[i].ai[4] = 255
          /\ gs_output[i][4] = 0

\* C8: in ai-enhanced mode the R, G, B written for every pixel are the AI
\* matte provider's R, G, B (no despill); only alpha is the merged alpha.
C8_AiEnhancedKeepsAiColour ==
    (gs_return = "True" /\ gs_mode = "ai-enhanced") =>
        \A i \in DOMAIN gs_world :
            /\ gs_output[i][1] = gs_world[i].ai[1]
            /\ gs_output[i][2] = gs_world[i].ai[2]
            /\ gs_output[i][3] = gs_world[i].ai[3]

\* Case of C8: an ai-enhanced run wrote a visible pixel whose green exceeds
\* the red/blue average, with its green as the AI gave it.
C8_Witness ==
    /\ gs_return = "True"
    /\ gs_mode = "ai-enhanced"
    /\ \E i \in DOMAIN gs_world :
          /\ gs_world[i].ai = <<58, 182, 71, 150>>
          /\ gs_output[i] = <<58, 182, 71, 150>>

\* C9: in hybrid mode the output alpha is min(alpha_chroma, alpha_ai), the
\* output R and B are the AI result's, and the output G is the despill (at
\* the backend's strength) of the AI result's pixel.
C9_HybridDespillsMerged ==
    (gs_return = "True" /\ gs_mode = "hybrid") =>
        \A i \in DOMAIN gs_world :
            LET a_chroma == 255 - gs_world[i].mask
                a_ai == gs_world[i].ai[4]
            IN  /\ gs_output[i][4] = (IF a_chroma <= a_ai THEN a_chroma ELSE a_ai)
                /\ gs_output[i][1] = gs_world[i].ai[1]
                /\ gs_output[i][3] = gs_world[i].ai[3]
                /\ IsDespilledG(gs_output[i][2], gs_world[i].ai, gs_strength)

\* C10: in chroma-only mode no AI session is ever created and the AI matte
\* provider is never called, whatever calls are made on the backend.
C10_ChromaOnlyNoAI ==
    gs_mode = "chroma-only" =>
        (gs_sessions = 0 /\ gs_ai_calls = 0 /\ ~gs_ai_session)

\* Case of C10: a chroma-only backend after load_model, ensure_model_loaded
\* and a successful process.
C10_Witness ==
    /\ gs_mode = "chroma-only"
    /\ gs_calls = 3
    /\ gs_model_loaded
    /\ gs_processor
    /\ gs_return = "True"
    /\ gs_output # <<>>

\* C11: in chroma-only mode the Despill Corrector is applied once: every
\* output pixel keeps the input pixel's R and B, has alpha 255 - mask, and
\* its G is G - max(G - (R+B)/2, 0) * despill_strength computed from the
\* input pixel (despill_strength being the configured strength, or the
\* backend's clamped one).
C11_ChromaOnlyDespillOnce ==
    (gs_return = "True" /\ gs_mode = "chroma-only") =>
        \A i \in DOMAIN gs_world :
            /\ gs_output[i][1] = gs_world[i].rgb[1]
            /\ gs_output[i][3] = gs_world[i].rgb[3]
            /\ gs_output[i][4] = 255 - gs_world[i].mask
            /\ \/ IsDespilledG(gs_output[i][2], gs_world[i].rgb,
                                gs_config.despill_strength)
               \/ IsDespilledG(gs_output[i][2], gs_world[i].rgb, gs_strength)

\* C12: once the AI matte provider has been called and has failed, process
\* has returned False, no output has been written, and the chroma-only
\* result has not been used in its place.
C12_AiFailureNoFallback ==
    (/\ gs_mode \in {"ai-enhanced", "hybrid"}
     /\ gs_ai_fails
     /\ gs_ai_calls > 0)
        => (gs_return = "False" /\ gs_output = <<>>)

\* Case of C12: a hybrid run computed the chroma-key image, called the
\* failing AI matte provider, returned False and wrote nothing.
C12_Witness ==
    /\ gs_mode = "hybrid"
    /\ gs_ai_fails
    /\ gs_ai_calls > 0
    /\ gs_ai_session
    /\ gs_chroma # <<>>
    /\ gs_return = "False"
    /\ gs_output = <<>>

\* C15: a process call never ends with an exception: whatever stage fails,
\* model and asset loading included, its outcome is True or False.
C15_ProcessNeverRaises ==
    wm_return \in {"none", "True", "False"}

\* The image process hands to _remove_watermark: the input, converted to
\* RGB when its mode is neither RGB nor RGBA.
AsProcessed(input) ==
    IF input.mode \notin {"RGB", "RGBA"} THEN ConvertRGB(input) ELSE input

\* Full removal: every channel of every tracked pixel of the region whose
\* alpha-map value is at least 0.002 is the recovered original, and every
\* other tracked pixel is as it was.
FullyRemoved ==
    LET before == AsProcessed(wm_input)
        alpha_map == wm_alpha_maps[wm_last_params.size]
    IN  \A c \in DOMAIN before.px :
            IF /\ InRegion(c, wm_last_params)
               /\ ~RatLT(alpha_map[AlphaIdx(c, wm_last_params)], <<2, 1000>>)
            THEN \A k \in DOMAIN before.px[c] :
                    IsRecovered(wm_output.px[c][k], before.px[c][k],
                                alpha_map[AlphaIdx(c, wm_last_params)])
            ELSE wm_output.px[c] = before.px[c]

\* C20 as stated: a backend constructed with a strength s in [0, 1] calls
\* _remove_watermark with strength s: 0.0 leaves every pixel unchanged
\* and 1.0 gives full removal.
C20_AppliesRequestedStrength ==
    wm_last_params.size # 0 =>
        /\ wm_last_params.strength[1] * wm_requested[2]
              = wm_requested[1] * wm_last_params.strength[2]
        /\ wm_requested[1] = 0 => wm_output = AsProcessed(wm_input)
        /\ wm_requested = <<1, 1>> => FullyRemoved

\* C20 amended: the strength _remove_watermark is called with is the
\* requested one limited to [0.1, 1.0]: s itself for s in [0.1, 1], and 0.1
\* for smaller s (so 0.0 acts as 0.1); 1.0 gives full removal.
C20_AppliesClampedStrength ==
    wm_last_params.size # 0 =>
        /\ 10 * wm_requested[1] < wm_requested[2]
              => wm_last_params.strength = <<1, 10>>
        /\ (/\ 10 * wm_requested[1] >= wm_requested[2]
            /\ wm_requested[1] <= wm_requested[2])
              => wm_last_params.strength[1] * wm_requested[2]
                    = wm_requested[1] * wm_last_params.strength[2]
        /\ wm_requested = <<1, 1>> => FullyRemoved

\* Case of C20: a backend constructed with strength 0.0 ran
\* _remove_watermark with strength 0.1 on a 48px region and changed a pixel,
\* the cached map holding a value of at least 0.002.
C20_Witness ==
    /\ wm_requested = <<0, 1>>
    /\ wm_return = "True"
    /\ wm_last_params.size = 48
    /\ wm_last_params.strength = <<1, 10>>
    /\ wm_output # AsProcessed(wm_input)

\* The names process_folder is expected to pass to process: the regular
\* files of the folder with a supported extension, in sorted order.
ExpectedNames ==
    SelectSeq(FileNames,
              LAMBDA n : /\ n \in {"B.PNG", "a.jpg", "a.png"}
                         /\ \E e \in pf_folder : e.name = n /\ e.is_file)

\* C13: a process call that returns False does not stop the batch: the
\* files passed to process are at every moment the first ones of the
\* scanned images in sorted order, each once, and when process_folder
\* returns every scanned image has been passed and its ProcessResult has
\* total = number of scanned images, success = number of True results and
\* failed = total - success.
C13_BatchCountsEveryImage ==
    /\ Len(pf_passed) <= Len(ExpectedNames)
    /\ pf_passed = SubSeq(ExpectedNames, 1, Len(pf_passed))
    /\ Len(pf_returns) = Len(pf_passed)
    /\ pf_pc = "done" =>
          /\ pf_passed = ExpectedNames
          /\ pf_result.total = Len(ExpectedNames)
          /\ pf_result.success
                = Cardinality({k \in DOMAIN pf_returns : pf_returns[k] = "True"})
          /\ pf_result.failed = pf_result.total - pf_result.success
          /\ pf_result.total = pf_result.success + pf_result.failed

\* Case of C13: a returned batch of three images whose second process call
\* returned False and whose first and third returned True, next to a file
\* that is no image.
C13_Witness ==
    /\ pf_pc = "done"
    /\ pf_passed = <<"B.PNG", "a.jpg", "a.png">>
    /\ pf_returns = <<"True", "False", "True">>
    /\ pf_result = [total |-> 3, success |-> 2, failed |-> 1]
    /\ \E e \in pf_folder : e.name = "notes.txt"

\* C14: a missing watermark reference asset does not crash the batch:
\* process_folder never ends with an exception.
C14_MissingAssetNoCrash ==
    pf_pc # "crashed"

\* C19: during a process_folder batch the reference image of each
\* watermark size is loaded, and its alpha map computed, at most once, and
\* the cache holds no key other than 48 and 96.
C19_AlphaMapLoadedOnce ==
    /\ \A size \in DOMAIN pf_ref_loads : pf_ref_loads[size] <= 1
    /\ DOMAIN wm_alpha_maps \subseteq {48, 96}

\* C16: constructing GreenScreenBackend or GeminiWatermarkBackend, directly
\* or through BackendRegistry.create, with a mode that is not one of the
\* backend's modes ends with ValueError: no instance is produced and
\* nothing has been loaded; with one of its modes an unloaded instance of
\* that mode is produced.
C16_InvalidModeRaises ==
    LET modes == IF ct_name = "greenscreen"
                 THEN {"hybrid", "chroma-only", "ai-enhanced"}
                 ELSE {"auto", "48px", "96px"}
    IN  (/\ ct_outcome # "pending"
         /\ ct_name \in {"greenscreen", "gemini-watermark"}) =>
            IF ct_model \in modes
            THEN /\ ct_outcome = "instance"
                 /\ ct_instance.backend = ct_name
                 /\ ct_instance.model = ct_model
                 /\ ~ct_instance.model_loaded
                 /\ ct_instance.resources = 0
            ELSE /\ ct_outcome = "ValueError"
                 /\ ct_instance = NoInstance

\* Case of C16: BackendRegistry.create("greenscreen", "auto", ...), a mode
\* of the other backend, ended with ValueError and no instance.
C16_Witness ==
    /\ ct_via = "registry"
    /\ ct_name = "greenscreen"
    /\ ct_model = "auto"
    /\ ct_outcome = "ValueError"
    /\ ct_instance = NoInstance

\* The operations refine_mask applies for the configuration, in order.
ExpectedOps ==
    <<[op |-> "close", ksize |-> 5], [op |-> "open", ksize |-> 3]>>
        \o (IF rf_config.erode_size > 0
            THEN <<[op |-> "erode", ksize |-> rf_config.erode_size]>> ELSE <<>>)
        \o (IF rf_config.edge_blur > 0
            THEN <<[op |-> "blur", ksize |-> 2 * rf_config.edge_blur + 1]>>
            ELSE <<>>)

\* C17: refine_mask applies close, then open, then the erosion (only when
\* erode_size > 0), then the Gaussian blur with kernel 2*edge_blur + 1 (only
\* when edge_blur > 0): the operations applied so far are always the first
\* ones of that list, and all of it when refine_mask returns.
C17_RefineOrder ==
    /\ Len(rf_trace) <= Len(ExpectedOps)
    /\ rf_trace = SubSeq(ExpectedOps, 1, Len(rf_trace))
    /\ rf_pc = "return" => rf_trace = ExpectedOps

\* Case of C17: a returned refine_mask that eroded with size 2 and blurred
\* with kernel 7 a mask these operations changed.
C17_Witness ==
    /\ rf_pc = "return"
    /\ rf_config.erode_size = 2
    /\ rf_config.edge_blur = 3
    /\ Len(rf_trace) = 4
    /\ rf_mask # rf_raw
    /\ \E p \in DOMAIN rf_mask : rf_mask[p] \notin {0, 255}

\* Is the raw mask 0 everywhere except for 255 at the pixel q?
IsSpeckAt(q) ==
    \A p \in DOMAIN rf_raw : rf_raw[p] = (IF p = q THEN 255 ELSE 0)

\* The closing and the opening have run and nothing after them.
AfterOpen ==
    /\ rf_pc = "erode"
    /\ rf_trace = <<[op |-> "close", ksize |-> 5], [op |-> "open", ksize |-> 3]>>

\* C18 as stated: for a raw mask that is 0 everywhere except one pixel of
\* 255, the mask after the closing and the opening is 0 at that pixel.
C18_SpeckRemoved ==
    AfterOpen =>
        \A q \in DOMAIN rf_raw : IsSpeckAt(q) => rf_mask[q] = 0

\* C18 amended: the same for masks at least 6 pixels wide and 4 pixels
\* high, wherever the pixel is; the whole mask is then 0.
C18_SpeckRemovedInLargeMask ==
    (AfterOpen /\ Width(rf_raw) >= 6 /\ Height(rf_raw) >= 4) =>
        \A q \in DOMAIN rf_raw :
            IsSpeckAt(q) => \A p \in DOMAIN rf_mask : rf_mask[p] = 0

\* Case of C18: a speck on the border of a mask 6 wide and 4 high, gone
\* once the closing and the opening have run.
C18_Witness ==
    /\ AfterOpen
    /\ Width(rf_raw) = 6
    /\ Height(rf_raw) = 4
    /\ IsSpeckAt(<<1, 2>>)
    /\ rf_mask[<<1, 2>>] = 0

\* C21: the despill stage gives the same R, G, B for two RGBA images that
\* have the same R, G, B and differ only in alpha (an image whose alpha is
\* 0 everywhere included).
C21_DespillIgnoresAlpha ==
    (ds_out_back # <<>> /\ ds_out_twin # <<>>) =>
        \A i \in DOMAIN ds_image :
            /\ ds_out_back[i][1] = ds_out_twin[i][1]
            /\ ds_out_back[i][2] = ds_out_twin[i][2]
            /\ ds_out_back[i][3] = ds_out_twin[i][3]

\* The masks of the size of the raw mask.
SameSizeMasks == MaskChoices(<<Width(rf_raw), Height(rf_raw)>>)

\* Is there a raw mask whose refined mask changes when the configuration
\* rf_config is replaced by other, all other options being equal?
ChangesOutput(other) ==
    \E m \in SameSizeMasks : refine_mask(m, other) # refine_mask(m, rf_config)

\* C22: each of edge_blur, erode_size and feather_amount controls the
\* refined mask: whatever the configuration, for each of the three options
\* there is a raw mask and another value of that option alone for which
\* refine_mask gives another output.
C22_EachOptionChangesOutput ==
    rf_pc = "return" =>
        /\ rf_mask = refine_mask(rf_raw, rf_config)
        /\ \E c \in RefineConfigs :
              /\ c.edge_blur # rf_config.edge_blur
              /\ c.erode_size = rf_config.erode_size
              /\ c.feather_amount = rf_config.feather_amount
              /\ ChangesOutput(c)
        /\ \E c \in RefineConfigs :
              /\ c.erode_size # rf_config.erode_size
              /\ c.edge_blur = rf_config.edge_blur
              /\ c.feather_amount = rf_config.feather_amount
              /\ ChangesOutput(c)
        /\ \E c \in RefineConfigs :
              /\ c.feather_amount # rf_config.feather_amount
              /\ c.edge_blur = rf_config.edge_blur
              /\ c.erode_size = rf_config.erode_size
              /\ ChangesOutput(c)

\* C27: when process is not stopped by the size check, in automatic and in
\* forced mode, the size x size region anchored at
\* (width - margin_right - logo_size, height - margin_bottom - logo_size)
\* lies inside the image, _remove_watermark is called with that region, and
\* no pixel outside the region is modified.
C27_RegionInsideImage ==
    (/\ wm_return \in {"True", "False"}
     /\ wm_input.mode # "corrupt"
     /\ ~TooSmall(wm_input.width, wm_input.height, wm_config)) =>
        LET pos == _calculate_watermark_position(wm_input.width,
                                                 wm_input.height, wm_config)
            size == wm_config.logo_size
            before == AsProcessed(wm_input)
        IN  /\ pos[1] >= 0
            /\ pos[2] >= 0
            /\ pos[1] + size <= wm_input.width
            /\ pos[2] + size <= wm_input.height
            /\ wm_last_params.size # 0 =>
                  /\ wm_last_params.x = pos[1]
                  /\ wm_last_params.y = pos[2]
                  /\ wm_last_params.size = size
                  /\ \A c \in DOMAIN before.px :
                        ~InRegion(c, wm_last_params)
                            => wm_output.px[c] = before.px[c]

\* Case of C27: an image exactly as large as the size check requires went
\* through _remove_watermark: the region starts at (0, 0), a pixel in it
\* was changed, and a tracked pixel lies outside it.
C27_Witness ==
    /\ wm_return = "True"
    /\ wm_last_params.size # 0
    /\ wm_last_params.x = 0
    /\ wm_last_params.y = 0
    /\ wm_output # AsProcessed(wm_input)
    /\ \E c \in DOMAIN wm_input.px : ~InRegion(c, wm_last_params)

\* C28: in a process_folder batch the backend's load_model is executed
\* exactly once when the folder holds at least one supported image (the
\* process calls do not load again), and never when it holds none.
C28_LoadModelOncePerBatch ==
    pf_pc = "done" =>
        pf_load_calls = IF Len(pf_image_files) = 0 THEN 0 ELSE 1

\* C29: within one process_folder batch, distinct input images are written
\* to distinct output paths: no two images passed to process share their
\* output path, and every image processed with success has a file of its
\* own in the output folder.
C29_DistinctOutputPaths ==
    /\ \A i, j \in DOMAIN pf_passed :
          i # j => OutputName(pf_passed[i]) # OutputName(pf_passed[j])
    /\ Cardinality(DOMAIN pf_outputs)
          = Cardinality({i \in DOMAIN pf_returns : pf_returns[i] = "True"})

\* C30: for a GreenScreenBackend constructed with any strength s, the
\* despill_strength of its GreenScreenConfig equals the backend's strength,
\* and both lie in [0.1, 1.0].
C30_ConfigStrengthIsBackendStrength ==
    /\ gs_config.despill_strength[1] * gs_strength[2]
          = gs_strength[1] * gs_config.despill_strength[2]
    /\ ~RatLT(gs_strength, <<1, 10>>)
    /\ ~RatLT(<<1, 1>>, gs_strength)
    /\ ~RatLT(gs_config.despill_strength, <<1, 10>>)
    /\ ~RatLT(<<1, 1>>, gs_config.despill_strength)

\* C23: a ProcessConfig constructed without output_folder has
\* output_folder = input_folder / 'output', for every input_folder; one
\* constructed with an output_folder keeps exactly that value; and the
\* construction alters no other field.
C23_DefaultOutputFolder ==
    cf_pc = "built" =>
        /\ cf_args.output_folder = None =>
              /\ cf_config.output_folder.given
              /\ cf_config.output_folder.path
                    = cf_args.input_folder \o <<"output">>
        /\ cf_args.output_folder # None =>
              cf_config.output_folder = cf_args.output_folder
        /\ cf_config.input_folder = cf_args.input_folder
        /\ cf_config.backend_name = cf_args.backend_name
        /\ cf_config.model = cf_args.model
        /\ cf_config.strength = cf_args.strength

\* Case of C23: a construction without output_folder whose input folder is
\* itself named output.
C23_Witness ==
    /\ cf_pc = "built"
    /\ cf_args.output_folder = None
    /\ cf_args.input_folder = <<"photos", "output">>
    /\ cf_config.output_folder = Some(<<"photos", "output", "output">>)

\* C26: after any sequence of save calls the stored history has at most 10
\* entries, holds no path twice, and its first entry is the path saved
\* last (resolved); saving a stored path again moves it to the front.
C26_HistoryBoundedDistinctRecentFirst ==
    hs_saves > 0 =>
        /\ hs_file.kind = "list"
        /\ Len(hs_file.entries) <= 10
        /\ \A i, j \in DOMAIN hs_file.entries :
              i # j => hs_file.entries[i] # hs_file.entries[j]
        /\ hs_file.entries[1] = Resolve(hs_last)

\* Case of C26: the history is full, and the path saved last, given as a
\* relative path, was stored before further back.
C26_Witness ==
    /\ hs_saves = MaxSaves
    /\ Len(hs_file.entries) = 10
    /\ hs_last = "d02"
    /\ hs_file.entries[1] = "/w/d02"
    /\ hs_file.entries[2] = "/w/d12"

\* C24: main returns 0 only on success and returns 1 on failure or
\* cancellation: 1 when the last batch had a failed image, when an
\* exception leaves the try block, and when the user cancels, in the
\* wizard or by keyboard interrupt.
C24_ExitCodeOneUnlessSuccess ==
    mn_pc = "exited" =>
        /\ mn_exit \in {0, 1}
        /\ (\/ mn_cancelled
            \/ mn_exception # "none"
            \/ ~mn_last_result_success) => mn_exit = 1

\* Has step 2, the backend selection, begun?
Step2Begun == \E k \in DOMAIN mn_output : mn_output[k] = "step2"

\* C25: at the backend-selection step the user gets to choose, and 'back'
\* leads to the folder prompt: once step 2 has begun, no exception ended
\* run, and run is waiting for the backend choice, is back at the folder
\* prompt, or went on to the model choice; unless it is back at the folder
\* prompt, the folder it holds is one that passed _validate_folder.
C25_BackReturnsToFolderStep ==
    Step2Begun =>
        /\ mn_exception = "none"
        /\ mn_pc \in {"backend_choice", "folder_input", "model_choice"}
        /\ mn_pc # "folder_input" =>
              /\ mn_folder.given
              /\ _validate_folder(mn_folder.path) = "found"

====
